---- MODULE Spec2Model ----
(***************************************************************************)
(* A model of the Archon game server (backend/src/game.py,                 *)
(* backend/src/subscriptions.py).                                          *)
(*                                                                         *)
(* The server runs on one asyncio event loop.  game_thread is one task;    *)
(* every websocket connection is another task that runs one request        *)
(* handler at a time.  A task runs until it awaits something that really   *)
(* suspends; in the code modelled here that is the send of a broadcast     *)
(* message to one subscriber (Game.broadcast).  Each task is a stack of    *)
(* frames (the coroutine call chain).  The code of a coroutine is an       *)
(* operator from the state, held as one record, to the set of states it    *)
(* can leave; Run applies these until the task suspends or ends, and one   *)
(* action of the model is one such run, so the interleavings of the model  *)
(* are those of the event loop: a task is preempted only inside a send.    *)
(***************************************************************************)
EXTENDS Integers, Sequences, FiniteSets, TLC

(***************************************************************************)
(* Bounds of the model.                                                    *)
(***************************************************************************)
GridRadius == 2        \* the cells tracked: those within this distance of the origin
MaxIds == 5            \* entity objects ever created
MaxRequests == 2       \* requests one connection sends
MaxRuntime == 4        \* Game.runtime is counted up to this many seconds
MaxBacklog == 4        \* a countdown is tracked down to this many seconds below 0
MaxDelta == 2          \* a tick's delta is up to this many steps of 2 s
MaxIdle == 4           \* Spec follows an idle game up to this many seconds
MaxCount == 2          \* events of one kind about one entity are counted up to this
MaxAdds == 4           \* add calls on the PriorityQueue under test
MaxPriority == 2       \* the priorities they give: 1 .. MaxPriority
PathLength == 2        \* path_between is called on the cells {0, 1} x 0 .. PathLength
MaxLimit == 6          \* with a limit up to MaxLimit
MaxActivations == 7    \* activations of the TransmuteBehaviour under test
Purse == 24            \* what each pool holds when it is put under test
MaxCommands == 4       \* commands sent to it
MaxReach == 5          \* vision: entities stand up to this far east of the origin
MaxLive == 1           \* vision: entities on the map at one time
MaxRow == 7            \* movers: the corridor is the cells <<0, 0>> .. <<MaxRow, 0>>
MaxObstacles == 1      \* movers: other entities in the corridor at one time
MaxHaul == 10          \* movers: the wood brought home is counted up to this
MaxCarry == 20         \* movers: a worker that carries this much is not activated again
MaxCost == 2           \* summoning: a unit of the pool costs 0 .. MaxCost
MaxStrength == 4       \* summoning: the strength is 0 .. MaxStrength

(***************************************************************************)
(* Program constants.                                                      *)
(***************************************************************************)
IdleLimit == 30        \* Game.on_tick: destroy after more than 30 s idle
StartPool == 1000      \* Game.food, gold, stone, wood, aether
StartVisionSize == 12  \* generate_starting_vision
DefaultVisionSize == 10 \* Entity.vision_size
ConstructionVisionSize == 1 \* Game.build_entity

Conns == {"c1", "c2"}
Tasks == {"tick"} \cup Conns
NoTask == "none"
NoConn == "-"

ResourceTypes == {"food", "gold", "stone", "wood", "aether"}

\* EntityTag
Unit == 1
Resource == 2
Structure == 4

\* entity_tag & tag, for a tag of one bit.
Has(entity_tag, tag) == (entity_tag \div tag) % 2 = 1

\* entity_tag_map
entity_tag_map == [Structure |-> Structure, Unit |-> Unit, Resource |-> Resource]

\* load_entities: the Tags of a template, or-ed into its entity_tag.
RECURSIVE load_entity_tag(_)
load_entity_tag(tags) ==
    IF tags = <<>> THEN 0
    ELSE LET entity_tag == load_entity_tag(SubSeq(tags, 1, Len(tags) - 1))
             tag == entity_tag_map[tags[Len(tags)]]
         IN IF Has(entity_tag, tag) THEN entity_tag ELSE entity_tag + tag

\* Alignment
Enemy == 0
Neutral == 1
Player == 2

(***************************************************************************)
(* Position: the hex kernel.                                               *)
(***************************************************************************)
Abs(x) == IF x < 0 THEN -x ELSE x

Min(a, b) == IF a < b THEN a ELSE b

Max(a, b) == IF a > b THEN a ELSE b

Origin == <<0, 0>>

distance(a, b) ==
    LET q == a[1] - b[1]
        r == a[2] - b[2]
    IN (Abs(q) + Abs(q + r) + Abs(r)) \div 2

neighbors(p) ==
    << <<p[1], p[2] - 1>>, <<p[1] + 1, p[2] - 1>>, <<p[1] + 1, p[2]>>,
       <<p[1], p[2] + 1>>, <<p[1] - 1, p[2] + 1>>, <<p[1] - 1, p[2]>> >>

Cells == {p \in (-GridRadius .. GridRadius) \X (-GridRadius .. GridRadius) :
            distance(p, Origin) <= GridRadius}

SeqToSet(s) == {s[i] : i \in 1 .. Len(s)}

\* Position.flood_fill(limit): the cells ring by ring; within one ring the
\* order is shuffled, so only the ring of a cell is determined.
Ring(p, d) == {c \in Cells : distance(c, p) = d}


\* Position.from_string: the value of a command is "q,r"; the model holds the
\* text as its comma-separated integer fields.  One field leaves r at its
\* default 0; more than two are too many arguments for Position() (TypeError).
\* No field at all stands for a text that int() refuses (ValueError).
from_string(fields) ==
    IF Len(fields) = 0 THEN [err |-> "ValueError", pos |-> Origin]
    ELSE IF Len(fields) = 1 THEN [err |-> "", pos |-> <<fields[1], 0>>]
    ELSE IF Len(fields) = 2 THEN [err |-> "", pos |-> <<fields[1], fields[2]>>]
    ELSE [err |-> "TypeError", pos |-> Origin]

(***************************************************************************)
(* PriorityQueue (pqueue.py).  An entry is the list [priority, count,      *)
(* item]; the model holds the item as <<item>> and the None that remove    *)
(* writes over it as <<>>.  heapq orders the entries by priority and then  *)
(* by count, and no two entries share a count, so the heap is modelled as  *)
(* the set of its entries and heappop takes the least of them.  An entry   *)
(* is one object shared by the heap and the table: entries[item] holds it  *)
(* by value, and remove writes None into both.                             *)
(***************************************************************************)
None == <<>>

PriorityQueue == [heap |-> {}, entries |-> <<>>, counter |-> 0]

\* PriorityQueue.__bool__
bool(q) == q.heap # {}

\* The order of two entries as lists: [priority, count, ...].
Before(a, b) ==
    a.priority < b.priority \/ (a.priority = b.priority /\ a.count <= b.count)

\* heap[0]: the entry heappop returns.
Least(heap) == CHOOSE e \in heap : \A o \in heap : Before(e, o)

\* d[k] = v on a dict.
Put(d, k, v) == [i \in DOMAIN d \cup {k} |-> IF i = k THEN v ELSE d[i]]

\* del d[k]
Del(d, k) == [i \in DOMAIN d \ {k} |-> d[i]]

\* PriorityQueue.remove, for an item of the table (KeyError otherwise).
remove(q, item) ==
    LET entry == q.entries[item]
        dead == [entry EXCEPT !.item = None]
    IN [q EXCEPT !.entries[item] = dead,
                 !.heap = {IF e = entry THEN dead ELSE e : e \in q.heap}]

\* PriorityQueue.add without the removal of the entry it replaces.
add_beside(q, item, priority) ==
    LET known == item \in DOMAIN q.entries
        entry == [priority |-> priority, count |-> q.counter, item |-> <<item>>]
    IN IF known /\ q.entries[item].priority = priority THEN q
       ELSE [heap |-> q.heap \cup {entry},
             entries |-> Put(q.entries, item, entry),
             counter |-> q.counter + 1]

\* PriorityQueue.add
add(q, item, priority) ==
    LET known == item \in DOMAIN q.entries
        q1 == IF known THEN remove(q, item) ELSE q
        entry == [priority |-> priority, count |-> q.counter, item |-> <<item>>]
    IN IF known /\ q.entries[item].priority = priority THEN q
       ELSE [heap |-> q1.heap \cup {entry},
             entries |-> Put(q1.entries, item, entry),
             counter |-> q.counter + 1]

\* PriorityQueue.pop: the queue it leaves, and the item returned or the
\* IndexError raised.
RECURSIVE pop(_)
pop(q) ==
    IF ~bool(q) THEN [queue |-> q, item |-> None, raised |-> TRUE]
    ELSE LET entry == Least(q.heap)
             q1 == [q EXCEPT !.heap = @ \ {entry}]
         IN IF entry.item # None
            THEN [queue |-> [q1 EXCEPT !.entries = Del(@, entry.item[1])],
                  item |-> entry.item, raised |-> FALSE]
            ELSE pop(q1)

\* PriorityQueue.peek
RECURSIVE peek(_)
peek(q) ==
    IF ~bool(q) THEN [queue |-> q, item |-> None, raised |-> TRUE]
    ELSE LET entry == Least(q.heap)
         IN IF entry.item # None
            THEN [queue |-> q, item |-> entry.item, raised |-> FALSE]
            ELSE peek([q EXCEPT !.heap = @ \ {entry}])

(***************************************************************************)
(* Behaviours and the entity catalog.  /data/entities.yaml is not part of  *)
(* the repository; the catalog below holds one entity per behaviour the    *)
(* model covers, loaded the way load_entities and from_yaml build them.    *)
(***************************************************************************)
TowerCosts == << <<"wood", 600>>, <<"stone", 600>> >>

WorkerCosts == << <<"food", 600>> >>

\* Costs with odd amounts, as from_yaml takes any int(Amount).
RecruitCosts == << <<"food", 5>> >>

PalisadeCosts == << <<"wood", 401>>, <<"stone", 601>> >>

EssentialBehaviour ==
    [type |-> "Essential", cooldown |-> 0, time_until_activation |-> 0]

KillObjectiveBehaviour ==
    [type |-> "KillObjective", cooldown |-> 0, time_until_activation |-> 0]

BuildBehaviour(unit, costs, duration) ==
    [type |-> "Build", cooldown |-> 0, time_until_activation |-> 0,
     unit |-> unit, costs |-> costs, duration |-> duration]

TrainBehaviour(unit, costs, duration) ==
    [type |-> "Train", cooldown |-> 0, time_until_activation |-> 0,
     unit |-> unit, costs |-> costs, duration |-> duration,
     queue |-> 0, progress |-> 0]

AttackBehaviour(cooldown, range, min_damage, max_damage) ==
    [type |-> "Attack", cooldown |-> cooldown, time_until_activation |-> 0,
     range |-> range, min_damage |-> min_damage, max_damage |-> max_damage,
     manual_target |-> 0]

RepairBehaviour(cooldown, amount) ==
    [type |-> "Repair", cooldown |-> cooldown, time_until_activation |-> 0,
     amount |-> amount]

SummonBehaviour(cooldown, unit) ==
    [type |-> "Summon", cooldown |-> cooldown, time_until_activation |-> 0,
     unit |-> unit]

SummonPoolBehaviour(cooldown, units, strength) ==
    [type |-> "SummonPool", cooldown |-> cooldown, time_until_activation |-> 0,
     units |-> units, strength |-> strength]

\* WorkerBehaviour, a PathingBehaviour: nothing is carried and no resource is
\* targeted in this world, which has no resource entity.
NoPosition == <<>>

WorkerBehaviour(cooldown) ==
    [type |-> "Worker", cooldown |-> cooldown, time_until_activation |-> 0,
     target_position |-> NoPosition, path |-> <<>>]

\* isinstance(behaviour, PathingBehaviour)
PathingBehaviour(b) == b.type = "Worker"

UnderConstructionBehaviour(unit, costs, builder) ==
    [type |-> "UnderConstruction", cooldown |-> 0, time_until_activation |-> 0,
     unit |-> unit, costs |-> costs, builder |-> builder]

\* Templates a Portal summons, with the Tags of each: one for every set of
\* tags load_entities accepts.
TagCatalog ==
    [Marker |-> <<>>, Grunt |-> <<"Unit">>, Boulder |-> <<"Resource">>,
     Totem |-> <<"Structure">>, Herd |-> <<"Unit", "Resource">>,
     Ram |-> <<"Unit", "Structure">>, Quarry |-> <<"Resource", "Structure">>,
     Golem |-> <<"Unit", "Resource", "Structure">>]

\* A Rift summons a "Wraith", a name that no template has: load_entities and
\* from_yaml take the Unit of a behaviour as it is written.
Names ==
    {"Fortress", "Worker", "Arrow Tower", "Raider", "Portal", "Rift", "Den", "Camp",
     "Warlord"}
    \cup DOMAIN TagCatalog

entity_templates ==
    [n \in Names |->
        CASE n = "Fortress" ->
               [max_hp |-> 2, entity_tag |-> Structure,
                behaviours |-> << EssentialBehaviour,
                                  TrainBehaviour("Worker", WorkerCosts, 4) >>]
          [] n = "Worker" ->
               [max_hp |-> 1, entity_tag |-> Unit,
                behaviours |-> << WorkerBehaviour(0),
                                  BuildBehaviour("Arrow Tower", TowerCosts, 2),
                                  RepairBehaviour(6, 1) >>]
          [] n = "Arrow Tower" ->
               [max_hp |-> 2, entity_tag |-> Structure,
                behaviours |-> << AttackBehaviour(6, 1, 1, 1) >>]
          [] n = "Raider" ->
               [max_hp |-> 1, entity_tag |-> Unit,
                behaviours |-> << AttackBehaviour(6, 1, 1, 1) >>]
          [] n = "Portal" ->
               [max_hp |-> 2, entity_tag |-> load_entity_tag(<<"Structure">>),
                behaviours |-> << SummonPoolBehaviour(0, [u \in DOMAIN TagCatalog |-> 1],
                                                      2) >>]
          [] n = "Den" ->
               [max_hp |-> 2, entity_tag |-> load_entity_tag(<<"Structure">>),
                behaviours |-> << SummonBehaviour(6, "Raider") >>]
          [] n = "Camp" ->
               [max_hp |-> 2, entity_tag |-> load_entity_tag(<<"Structure">>),
                behaviours |-> << TrainBehaviour("Worker", RecruitCosts, 4),
                                  BuildBehaviour("Arrow Tower", PalisadeCosts, 2) >>]
          [] n = "Warlord" ->
               [max_hp |-> 1, entity_tag |-> Unit,
                behaviours |-> << KillObjectiveBehaviour,
                                  AttackBehaviour(6, 1, 1, 2) >>]
          [] n = "Rift" ->
               [max_hp |-> 2, entity_tag |-> load_entity_tag(<<"Structure">>),
                behaviours |-> << SummonBehaviour(0, "Wraith") >>]
          [] OTHER ->
               [max_hp |-> 1, entity_tag |-> load_entity_tag(TagCatalog[n]),
                behaviours |-> <<>>]]

\* Game.add_entity: the deep copy of a template, made a live instance.
NewEntity(name, position, alignment) ==
    [name |-> name, template |-> FALSE, removed |-> FALSE,
     entity_tag |-> entity_templates[name].entity_tag,
     position |-> position,
     hp |-> entity_templates[name].max_hp,
     max_hp |-> entity_templates[name].max_hp,
     alignment |-> alignment,
     vision_size |-> DefaultVisionSize,
     behaviours |-> entity_templates[name].behaviours,
     time_until_update |-> 0]

\* Game.build_entity: name=f"<{name}>"
ConstructionName(name) ==
    CASE name = "Arrow Tower" -> "<Arrow Tower>"
      [] name = "Worker" -> "<Worker>"
      [] name = "Fortress" -> "<Fortress>"
      [] name = "Raider" -> "<Raider>"

\* Game.build_entity: the construction site of `name`.
NewConstruction(builder, alignment, behaviour, name, position) ==
    [name |-> ConstructionName(name), template |-> FALSE, removed |-> FALSE,
     entity_tag |-> Structure,
     position |-> position,
     hp |-> 0,
     max_hp |-> behaviour.duration,
     alignment |-> alignment,
     vision_size |-> ConstructionVisionSize,
     behaviours |-> << UnderConstructionBehaviour(name, behaviour.costs, builder) >>,
     time_until_update |-> 0]

(***************************************************************************)
(* State.                                                                  *)
(***************************************************************************)
VARIABLES
    games,              \* the ids in the module-level games table
    state,              \* Game.state
    inactive,           \* Game.inactive
    time_since_active,  \* Game.time_since_active
    runtime,            \* Game.runtime
    pools,              \* Game.food, gold, stone, wood, aether
    ent,                \* every Entity object created, by id (removed ones too)
    entities,           \* Game.entities: the ids, in insertion order
    map,                \* Game.map: cell -> id, 0 where the cell is not a key
    structures,         \* Game.structures
    units,              \* Game.units
    resources,          \* Game.resources
    subscribers,        \* Game.subscribers
    queued_updates,     \* Game.queued_updates
    revealed,           \* Game.revealed_area, as the hexagons united so far
    closed,             \* connections whose websocket is closed
    stack,              \* task -> its frames, innermost first
    err,                \* task -> the exception that ended its last run
    nreq,               \* connection -> requests sent so far
    ev,                 \* id -> what has been broadcast about the entity, the Game.end calls of its removal
    quiet,              \* seconds of the subscriber-less ticks in a row, after the first
    trained,            \* id -> the Train ticks that were due, the units made, paid for, refunded
    ticked,             \* the ids Entity.on_tick was called on by the latest active tick
    activated,          \* the <<id, i>> whose on_activate it called, one after the other
    received,           \* connection -> the latest command it had Entity.on_command take, the calls made
    pq,                 \* a PriorityQueue under test, with the calls made on it
    call                \* one call of Game.path_between, or a behaviour under test

vars == <<games, state, inactive, time_since_active, runtime, pools, ent, entities,
          map, structures, units, resources, subscribers, queued_updates, revealed,
          closed, stack, err, nreq, ev, quiet, trained, ticked, activated, received,
          pq, call>>

\* The state as one record, with the task the event loop is executing:
\* between two actions every task is suspended or has ended.
Cur ==
    [games |-> games, state |-> state, inactive |-> inactive,
     time_since_active |-> time_since_active, runtime |-> runtime, pools |-> pools,
     ent |-> ent, entities |-> entities, map |-> map, structures |-> structures,
     units |-> units, resources |-> resources, subscribers |-> subscribers,
     queued_updates |-> queued_updates, revealed |-> revealed, closed |-> closed,
     stack |-> stack, err |-> err, nreq |-> nreq, ev |-> ev, quiet |-> quiet,
     trained |-> trained, ticked |-> ticked,
     activated |-> activated, received |-> received, running |-> NoTask]

Becomes(s) ==
    /\ games' = s.games
    /\ state' = s.state
    /\ inactive' = s.inactive
    /\ time_since_active' = s.time_since_active
    /\ runtime' = s.runtime
    /\ pools' = s.pools
    /\ ent' = s.ent
    /\ entities' = s.entities
    /\ map' = s.map
    /\ structures' = s.structures
    /\ units' = s.units
    /\ resources' = s.resources
    /\ subscribers' = s.subscribers
    /\ queued_updates' = s.queued_updates
    /\ revealed' = s.revealed
    /\ closed' = s.closed
    /\ stack' = s.stack
    /\ err' = s.err
    /\ nreq' = s.nreq
    /\ ev' = s.ev
    /\ quiet' = s.quiet
    /\ trained' = s.trained
    /\ ticked' = s.ticked
    /\ activated' = s.activated
    /\ received' = s.received
    /\ UNCHANGED <<pq, call>>

Ids == 1 .. MaxIds

InMap(s, p) == p \in Cells /\ s.map[p] # 0

Alive(s, id) == id \in SeqToSet(s.entities)

(***************************************************************************)
(* Frames.  A frame is one coroutine of a task's call chain with the place *)
(* it will continue from; the head of the stack is the innermost call.     *)
(***************************************************************************)
Top(s, t) == Head(s.stack[t])

Msg(type, id) ==
    [type |-> type, id |-> id, src |-> 0, ids |-> {}, res |-> "", amount |-> 0]

BroadcastFrame(m) ==
    [op |-> "broadcast", msg |-> m, started |-> FALSE, todo |-> {},
     used |-> 0, snap |-> {}, broken |-> {}, cur |-> NoConn]

\* Entity.on_command without its try: only the callers catch.
Catches_outer(f, e) ==
    f.op \in {"respond", "tick_end"}

\* What an exception raised below frame f is caught by: handle_ws_request and
\* asyncio.gather(return_exceptions=True) catch everything, Entity.on_command
\* catches the three kinds it names and goes on with the next behaviour.
Catches(f, e) ==
    \/ f.op \in {"respond", "tick_end"}
    \/ f.op = "on_command" /\ e \in {"KeyError", "ValueError", "ClientError"}

RECURSIVE Unwind(_, _)
Unwind(st, e) == IF Catches(Head(st), e) THEN st ELSE Unwind(Tail(st), e)

\* Task t goes on with the frames fs in place of its innermost frame.
Goto(s, t, fs) == [s EXCEPT !.stack[t] = fs \o Tail(@)]

\* No command has reached Entity.on_command.  A command is held with the
\* number of the request that brought it.
NoOrder == [request |-> 0, id |-> 0, key |-> <<>>, calls |-> <<>>, escaped |-> ""]

\* The task with the frames st is inside Entity.on_command.
Inside(st) == \E k \in DOMAIN st : st[k].op = "on_command"

\* Task t raises e in its innermost frame; inside Entity.on_command the call
\* of the behaviour it was made in is marked with e, and the command too when
\* e leaves Entity.on_command.
Raise(s, t, e) ==
    LET st == Unwind(s.stack[t], e)
        n == Len(s.received[t].calls)
    IN [s EXCEPT !.stack[t] = st,
                 !.err[t] = IF Len(st) = 1 THEN e ELSE @,
                 !.received = IF Inside(s.stack[t])
                              THEN [@ EXCEPT ![t].calls[n].raised = e,
                                             ![t].escaped = IF Inside(st) THEN @ ELSE e]
                              ELSE @]

(***************************************************************************)
(* What has been broadcast about each entity.                              *)
(***************************************************************************)
Referenced(m) ==
    CASE m.type \in {"entity/add", "entity/remove", "entity/target", "entity/progress"} -> {m.id}
      [] m.type = "entity/update" -> m.ids
      [] m.type = "entity/attack" -> {m.src, m.id}
      [] OTHER -> {}

Count(n) == Min(n + 1, MaxCount)

NoteEvent(e, m) ==
    [i \in Ids |->
        [add    |-> IF m.type = "entity/add" /\ m.id = i THEN Count(e[i].add) ELSE e[i].add,
         remove |-> IF m.type = "entity/remove" /\ m.id = i THEN Count(e[i].remove)
                    ELSE e[i].remove,
         early  |-> e[i].early \/ (i \in Referenced(m) /\ m.type # "entity/add" /\ e[i].add = 0),
         late   |-> e[i].late \/
                    (/\ e[i].remove >= 1
                     /\ \/ m.type = "entity/update" /\ i \in m.ids
                        \/ m.type \in {"entity/attack", "entity/remove"} /\ m.id = i),
         ends   |-> e[i].ends]]

(***************************************************************************)
(* Game.broadcast.                                                         *)
(***************************************************************************)
\* The call: the iterator over self.subscribers is made and the first send
\* started, which suspends the task; with no subscriber the loop ends at once
\* and the call returns.
broadcast(s, t) ==
    LET f == Top(s, t)
        s1 == [s EXCEPT !.ev = NoteEvent(@, f.msg)]
    IN IF s.subscribers = {}
       THEN {Goto(s1, t, <<>>)}
       ELSE {[Goto(s1, t, <<[f EXCEPT !.started = TRUE,
                                      !.used = Cardinality(s.subscribers),
                                      !.snap = s.subscribers,
                                      !.todo = s.subscribers \ {c},
                                      !.cur = c]>>)
                EXCEPT !.running = NoTask] : c \in s.subscribers}

\* The send to cur has ended (raising, when the websocket is closed) and task
\* t runs again; the loop takes the next connection from the set iterator.
\* A set whose size differs from the size at the start of the iteration makes
\* the iterator raise RuntimeError; a set that changed and has its old size
\* again is iterated in whatever order its table now has.  After the loop:
\* self.subscribers -= broken_connections.
broadcast_resume(s, t) ==
    LET f == Top(s, t)
        broken == IF f.cur \in s.closed THEN f.broken \cup {f.cur} ELSE f.broken
        left == IF s.subscribers = f.snap THEN {f.todo} ELSE SUBSET s.subscribers
    IN IF Cardinality(s.subscribers) # f.used
       THEN {[Raise(s, t, "RuntimeError") EXCEPT !.running = t]}
       ELSE UNION {
              IF todo = {}
              THEN {[Goto([s EXCEPT !.subscribers = @ \ broken], t, <<>>)
                       EXCEPT !.running = t]}
              ELSE {Goto(s, t, <<[f EXCEPT !.todo = todo \ {c}, !.snap = s.subscribers,
                                           !.broken = broken, !.cur = c]>>) : c \in todo}
              : todo \in left}

(***************************************************************************)
(* The tick: game_thread, Game.on_tick, Game.on_active_tick.               *)
(***************************************************************************)
\* Time is counted in seconds on a grid of 2 s: a tick's delta and every
\* random duration is a multiple of 2 s.
OnGrid(x) == x % 2 = 0

Deltas == {2 * k : k \in 1 .. MaxDelta}

\* random.uniform(0.95, 1.05) * cooldown, and that times 0.33.
Jitter(cooldown, ok) ==
    IF ok
    THEN {x \in 0 .. 2 * cooldown :
            OnGrid(x) /\ 95 * cooldown <= 100 * x /\ 100 * x <= 105 * cooldown}
    ELSE {x \in 0 .. cooldown :
            OnGrid(x) /\ 3135 * cooldown <= 10000 * x /\ 10000 * x <= 3465 * cooldown}

\* random.uniform(5.0, 6.0)
UpdateDelay == {x \in 5 .. 6 : OnGrid(x)}

\* Game.on_tick without "self.time_since_active = 0.0": the counter goes on
\* from where the last idle stretch left it.
on_tick_without_restart(s, delta) ==
    IF s.inactive /\ s.subscribers = {}
    THEN [s EXCEPT !.time_since_active = @ + delta,
                   !.games = IF s.time_since_active + delta > IdleLimit
                             THEN @ \ {"g"} ELSE @]
    ELSE IF s.subscribers = {}
    THEN [s EXCEPT !.inactive = TRUE]
    ELSE IF s.state = "active"
    THEN [s EXCEPT !.inactive = FALSE,
                   !.runtime = Min(@ + delta, MaxRuntime),
                   !.ticked = {},
                   !.activated = <<>>,
                   !.stack["tick"] =
                        << [op |-> "on_active_tick", snapshot |-> s.entities, k |-> 1,
                            delta |-> delta],
                           [op |-> "flush", snapshot |-> s.entities, ticked |-> <<>>],
                           [op |-> "tick_end"] >>,
                   !.running = "tick"]
    ELSE [s EXCEPT !.inactive = FALSE]

\* Game.on_tick without "if self.state == GameState.Active".
on_tick_in_any_state(s, delta) ==
    IF s.inactive /\ s.subscribers = {}
    THEN [s EXCEPT !.time_since_active = @ + delta,
                   !.games = IF s.time_since_active + delta > IdleLimit
                             THEN @ \ {"g"} ELSE @]
    ELSE IF s.subscribers = {}
    THEN [s EXCEPT !.inactive = TRUE, !.time_since_active = 0]
    ELSE [s EXCEPT !.inactive = FALSE,
                   !.runtime = Min(@ + delta, MaxRuntime),
                   !.ticked = {},
                   !.activated = <<>>,
                   !.stack["tick"] =
                        << [op |-> "on_active_tick", snapshot |-> s.entities, k |-> 1,
                            delta |-> delta],
                           [op |-> "flush", snapshot |-> s.entities, ticked |-> <<>>],
                           [op |-> "tick_end"] >>,
                   !.running = "tick"]

\* Game.on_tick(delta) up to the call of on_active_tick, whose first lines
\* (runtime, the snapshot of the entities) run with it.
on_tick(s, delta) ==
    IF s.inactive /\ s.subscribers = {}
    THEN [s EXCEPT !.time_since_active = @ + delta,
                   !.games = IF s.time_since_active + delta > IdleLimit
                             THEN @ \ {"g"} ELSE @]
    ELSE IF s.subscribers = {}
    THEN [s EXCEPT !.inactive = TRUE, !.time_since_active = 0]
    ELSE IF s.state = "active"
    THEN [s EXCEPT !.inactive = FALSE,
                   !.runtime = Min(@ + delta, MaxRuntime),
                   !.ticked = {},
                   !.activated = <<>>,
                   !.stack["tick"] =
                        << [op |-> "on_active_tick", snapshot |-> s.entities, k |-> 1,
                            delta |-> delta],
                           [op |-> "flush", snapshot |-> s.entities, ticked |-> <<>>],
                           [op |-> "tick_end"] >>,
                   !.running = "tick"]
    ELSE [s EXCEPT !.inactive = FALSE]

\* The outermost frame of a task has its result or its exception: for the
\* tick asyncio.gather, for a request handle_ws_request, which answers.
Return(s, t) == {[s EXCEPT !.stack[t] = <<>>, !.running = NoTask]}

\* on_active_tick with a for loop that leaves out the last entity of the
\* snapshot.
on_active_tick_short(s, t) ==
    LET f == Top(s, t)
    IN IF f.k < Len(f.snapshot)
       THEN {Goto(s, t, << [op |-> "entity_on_tick", id |-> f.snapshot[f.k],
                            delta |-> f.delta],
                           [f EXCEPT !.k = f.k + 1] >>)}
       ELSE {Goto(s, t, <<>>)}

\* on_active_tick: for entity in tuple(self.entities.values())
on_active_tick(s, t) ==
    LET f == Top(s, t)
    IN IF f.k <= Len(f.snapshot)
       THEN {Goto(s, t, << [op |-> "entity_on_tick", id |-> f.snapshot[f.k],
                            delta |-> f.delta],
                           [f EXCEPT !.k = f.k + 1] >>)}
       ELSE {Goto(s, t, <<>>)}

\* on_active_tick, after the loop: the queued updates are sent as one batch.
\* The message notes what the tick's snapshot was, which entities on_tick
\* was called on, and what was queued and in the entity table.
flush(s, t) ==
    LET ids == {i \in s.queued_updates : Alive(s, i)}
        f == Top(s, t)
        seen == [snapshot |-> f.snapshot, ticked |-> f.ticked,
                 queued |-> s.queued_updates, table |-> SeqToSet(s.entities)]
    IN { Goto([s EXCEPT !.ent = [i \in DOMAIN s.ent |->
                                    IF i \in ids
                                    THEN [s.ent[i] EXCEPT !.time_until_update = d[i]]
                                    ELSE s.ent[i]],
                        !.queued_updates = {}],
              t,
              IF ids # {}
              THEN <<BroadcastFrame([type |-> "entity/update", id |-> 0, src |-> 0,
                                     ids |-> ids, res |-> "", amount |-> 0,
                                     seen |-> seen])>>
              ELSE <<>>)
         : d \in [ids -> UpdateDelay] }

\* Entity.on_tick
Entity_on_tick(s, t) ==
    LET f == Top(s, t)
        left == Max(s.ent[f.id].time_until_update - f.delta, -MaxBacklog)
    IN {Goto([s EXCEPT !.ent[f.id].time_until_update = left,
                       !.queued_updates = IF left <= 0 THEN @ \cup {f.id} ELSE @,
                       !.ticked = @ \cup {f.id},
                       !.stack[t] = [k \in DOMAIN @ |->
                                        IF @[k].op = "flush"
                                        THEN [@[k] EXCEPT !.ticked = Append(@, f.id)]
                                        ELSE @[k]]],
             t, <<[op |-> "behaviours", id |-> f.id, i |-> 1, delta |-> f.delta]>>)}

\* Entity.on_tick: for behaviour in self.behaviours: await behaviour.on_tick;
\* TrainBehaviour.on_tick goes on after super().on_tick.
behaviours(s, t) ==
    LET f == Top(s, t)
    IN IF f.i <= Len(s.ent[f.id].behaviours)
       THEN {Goto(s, t, << [op |-> "behaviour_on_tick", id |-> f.id, i |-> f.i,
                            delta |-> f.delta] >>
                        \o (IF s.ent[f.id].behaviours[f.i].type = "Train"
                            THEN << [op |-> "train_on_tick", id |-> f.id, i |-> f.i,
                                     delta |-> f.delta] >>
                            ELSE <<>>)
                        \o << [f EXCEPT !.i = f.i + 1] >>)}
       ELSE {Goto(s, t, <<>>)}

\* Behaviour.on_tick with "while" for "if", as far as two rounds.
Behaviour_on_tick_twice(s, t) ==
    LET f == Top(s, t)
        left == Max(s.ent[f.id].behaviours[f.i].time_until_activation - f.delta,
                    -MaxBacklog)
    IN {Goto([s EXCEPT !.ent[f.id].behaviours[f.i].time_until_activation = left,
                       !.activated = IF left <= 0
                                     THEN @ \o << <<f.id, f.i>>, <<f.id, f.i>> >>
                                     ELSE @],
             t,
             IF left <= 0 THEN <<[op |-> "on_activate", id |-> f.id, i |-> f.i],
                                 [op |-> "on_activate", id |-> f.id, i |-> f.i]>>
             ELSE <<>>)}

\* Behaviour.on_tick
Behaviour_on_tick(s, t) ==
    LET f == Top(s, t)
        left == Max(s.ent[f.id].behaviours[f.i].time_until_activation - f.delta,
                    -MaxBacklog)
    IN {Goto([s EXCEPT !.ent[f.id].behaviours[f.i].time_until_activation = left,
                       !.activated = IF left <= 0 THEN Append(@, <<f.id, f.i>>) ELSE @],
             t,
             IF left <= 0 THEN <<[op |-> "on_activate", id |-> f.id, i |-> f.i]>>
             ELSE <<>>)}

\* Behaviour.on_tick, after on_activate returned ok: the frame holds ok when
\* on_activate awaited, ReloadNow is for an on_activate that did not.
Reloaded(s, id, i, ok) ==
    {[s EXCEPT !.ent[id].behaviours[i].time_until_activation = @ + x] :
        x \in Jitter(s.ent[id].behaviours[i].cooldown, ok)}

reload(s, t) ==
    LET f == Top(s, t)
    IN {Goto(s2, t, <<>>) : s2 \in Reloaded(s, f.id, f.i, f.ok)}

ReloadNow(s, t, ok) ==
    {Goto(s2, t, <<>>) : s2 \in Reloaded(s, Top(s, t).id, Top(s, t).i, ok)}

(***************************************************************************)
(* Entities: add, build, remove, attack, heal.                             *)
(***************************************************************************)
RemoveFrom(seq, x) == SelectSeq(seq, LAMBDA y : y # x)

\* create_hexagon(position, size) lies within an area that holds a hexagon
\* around c of size n when distance(c, position) + size <= n; the area is
\* kept as the set of hexagons united into it.  For positions within 4 of the
\* origin no hexagon lies within the union of the others without lying
\* within one of them, so that the test is that of add_vision on Cells.
Covered(area, position, size) ==
    \E h \in area : distance(h[1], position) + size <= h[2]

\* Game.empty_space_near: the first free cell of flood_fill(), which goes ring
\* by ring and shuffles each ring: the cells it may return.
empty_space_near(s, p) ==
    LET free(d) == {c \in Ring(p, d) : s.map[c] = 0}
        ds == {d \in 0 .. 2 * GridRadius : free(d) # {}}
    IN IF ds = {} THEN {}
       ELSE free(CHOOSE d \in ds : \A d2 \in ds : d <= d2)

\* Entity.find_enemy_nearby that takes the first occupant that is not
\* Neutral, whatever its alignment.
find_enemy_nearby_any(s, id, limit) ==
    LET hits(d) == {s.map[c] : c \in {c \in Ring(s.ent[id].position, d) :
                        /\ s.map[c] # 0
                        /\ s.ent[s.map[c]].alignment # Neutral}}
        ds == {d \in 0 .. limit : hits(d) # {}}
    IN IF ds = {} THEN {0}
       ELSE hits(CHOOSE d \in ds : \A d2 \in ds : d <= d2)

\* Entity.find_enemy_nearby(limit): the ids it may return, {0} for None.
find_enemy_nearby(s, id, limit) ==
    LET hits(d) == {s.map[c] : c \in {c \in Ring(s.ent[id].position, d) :
                        /\ s.map[c] # 0
                        /\ s.ent[s.map[c]].alignment # Neutral
                        /\ s.ent[s.map[c]].alignment # s.ent[id].alignment}}
        ds == {d \in 0 .. limit : hits(d) # {}}
    IN IF ds = {} THEN {0}
       ELSE hits(CHOOSE d \in ds : \A d2 \in ds : d <= d2)

\* The if/elif chain of on_new_entity and remove_entity: the one view that
\* holds entity e, 0 for none.
View(e) ==
    IF Has(e.entity_tag, Structure) THEN Structure
    ELSE IF Has(e.entity_tag, Unit) THEN Unit
    ELSE IF Has(e.entity_tag, Resource) THEN Resource
    ELSE 0

\* Game.on_new_entity: entity e gets the next id and is indexed; then the
\* reveal (when the revealed area grew) and the entity/add are broadcast.
\* No behaviour of the catalog overrides on_create or carries a label.
\* by is the entity whose Train behaviour asked for e, 0 for any other caller.
on_new_entity(s, t, e, by) ==
    LET id == Len(s.ent) + 1
        grows == e.alignment = Player /\ ~Covered(s.revealed, e.position, e.vision_size)
    IN IF Len(s.ent) >= MaxIds THEN {}
       ELSE {Goto([s EXCEPT
                    !.ent = Append(@, e),
                    !.entities = Append(@, id),
                    !.map[e.position] = id,
                    !.structures = IF View(e) = Structure THEN @ \cup {id} ELSE @,
                    !.units = IF View(e) = Unit THEN @ \cup {id} ELSE @,
                    !.resources = IF View(e) = Resource THEN @ \cup {id} ELSE @,
                    !.revealed = IF grows THEN @ \cup {<<e.position, e.vision_size>>}
                                 ELSE @,
                    !.trained = IF by # 0 THEN [@ EXCEPT ![by].made = @ + 1] ELSE @],
                  t,
                  (IF grows THEN <<BroadcastFrame(Msg("reveal", 0))>> ELSE <<>>)
                  \o <<BroadcastFrame(Msg("entity/add", id))>>)}

\* Game.add_entity(name, position, alignment).  The frame holds how the caller
\* computes the position argument: a given cell ("at"), the position of
\* entity ref ("same_as"), or game.empty_space_near of it ("near").
AddEntityFrame(name, how, ref, pos, alignment, by) ==
    [op |-> "add_entity", name |-> name, how |-> how, ref |-> ref, pos |-> pos,
     alignment |-> alignment, by |-> by]

add_entity(s, t) ==
    LET f == Top(s, t)
        where == CASE f.how = "at" -> {f.pos}
                   [] f.how = "same_as" -> {s.ent[f.ref].position}
                   [] f.how = "near" -> empty_space_near(s, s.ent[f.ref].position)
    IN UNION { IF InMap(s, position)
               THEN {Raise(s, t, "RuntimeError")}
               ELSE IF f.name \notin Names
               THEN {Raise(s, t, "KeyError")}
               ELSE on_new_entity(s, t, NewEntity(f.name, position, f.alignment), f.by)
               : position \in where }

\* Game.build_entity(builder, behaviour, name, position)
build_entity(s, t) ==
    LET f == Top(s, t)
    IN IF InMap(s, f.pos)
       THEN {Raise(s, t, "RuntimeError")}
       ELSE on_new_entity(s, t,
                          NewConstruction(f.builder, s.ent[f.builder].alignment,
                                          s.ent[f.builder].behaviours[f.i],
                                          f.name, f.pos),
                          0)

\* Game.remove_entity up to the first on_remove: the tombstone is set and the
\* indices are popped; map.pop(entity.position) drops whatever the cell holds.
remove_entity(s, t) ==
    LET id == Top(s, t).id
        e == s.ent[id]
    IN {Goto([s EXCEPT
                !.ent[id].removed = TRUE,
                !.entities = RemoveFrom(@, id),
                !.map[e.position] = 0,
                !.structures = IF View(e) = Structure THEN @ \ {id} ELSE @,
                !.units = IF View(e) = Unit THEN @ \ {id} ELSE @,
                !.resources = IF View(e) = Resource THEN @ \ {id} ELSE @],
             t,
             << [op |-> "on_remove", id |-> id, i |-> 1],
                BroadcastFrame(Msg("entity/remove", id)) >>)}

\* Game.remove_entity: for behaviour in entity.behaviours: on_remove.
\* EssentialBehaviour and KillObjectiveBehaviour end the game (Game.end) when
\* no entity of the name is left; UnderConstructionBehaviour clears the target
\* of the builder's pathing behaviours that are on their way to the building.
on_remove(s, t) ==
    LET f == Top(s, t)
        next == [f EXCEPT !.i = f.i + 1]
        b == s.ent[f.id].behaviours[f.i]
        end(label) ==
            {Goto([s EXCEPT !.state = "finished",
                            !.ev[f.id].ends = IF Len(@) < MaxCount
                                              THEN Append(@, label) ELSE @],
                  t, << BroadcastFrame(Msg("game/end", 0)), next >>)}
    IN IF f.i > Len(s.ent[f.id].behaviours)
       THEN {Goto(s, t, <<>>)}
       ELSE IF b.type = "UnderConstruction"
       THEN {Goto([s EXCEPT !.ent[b.builder].behaviours =
                    [k \in DOMAIN @ |->
                        IF /\ PathingBehaviour(@[k])
                           /\ @[k].target_position = s.ent[f.id].position
                        THEN [@[k] EXCEPT !.target_position = NoPosition]
                        ELSE @[k]]],
                  t, <<next>>)}
       ELSE IF /\ b.type \in {"Essential", "KillObjective"}
               /\ \A o \in SeqToSet(s.entities) : s.ent[o].name # s.ent[f.id].name
       THEN end(IF b.type = "Essential" THEN "Defeat" ELSE "Victory")
       ELSE {Goto(s, t, <<next>>)}

\* Game.handle_attack up to the broadcast, without the floor of 0.
handle_attack_unfloored(s, t) ==
    LET f == Top(s, t)
    IN {Goto([s EXCEPT !.ent[f.target].hp = @ - f.amount], t,
             << BroadcastFrame([Msg("entity/attack", f.target) EXCEPT !.src = f.attacker]),
                [op |-> "attack_done", target |-> f.target] >>)}

\* Game.handle_attack up to the broadcast.
handle_attack(s, t) ==
    LET f == Top(s, t)
    IN {Goto([s EXCEPT !.ent[f.target].hp = Max(@ - f.amount, 0)], t,
             << BroadcastFrame([Msg("entity/attack", f.target) EXCEPT !.src = f.attacker]),
                [op |-> "attack_done", target |-> f.target] >>)}

\* Game.handle_attack after the broadcast.
attack_done(s, t) ==
    LET target == Top(s, t).target
    IN IF s.ent[target].hp = 0
       THEN {Goto(s, t, <<[op |-> "remove_entity", id |-> target]>>)}
       ELSE {Goto([s EXCEPT !.queued_updates = @ \cup {target}], t, <<>>)}

\* Game.heal_entity
heal_entity(s, t) ==
    LET f == Top(s, t)
        e == s.ent[f.id]
    IN IF e.hp = e.max_hp
       THEN {Goto(s, t, <<>>)}
       ELSE {Goto([s EXCEPT !.ent[f.id].hp = @ + Min(f.amount, e.max_hp - e.hp),
                            !.queued_updates = @ \cup {f.id}],
                  t, <<[op |-> "on_heal", id |-> f.id, i |-> 1]>>)}

\* Entity.on_heal; UnderConstructionBehaviour.on_heal swaps a finished
\* construction for the unit.
on_heal(s, t) ==
    LET f == Top(s, t)
        e == s.ent[f.id]
        next == [f EXCEPT !.i = f.i + 1]
    IN IF f.i > Len(e.behaviours)
       THEN {Goto(s, t, <<>>)}
       ELSE IF e.behaviours[f.i].type = "UnderConstruction" /\ e.hp = e.max_hp
       THEN {Goto(s, t, << [op |-> "remove_entity", id |-> f.id],
                           AddEntityFrame(e.behaviours[f.i].unit, "same_as", f.id, Origin,
                                          e.alignment, 0),
                           next >>)}
       ELSE {Goto(s, t, <<next>>)}

(***************************************************************************)
(* Resources.                                                              *)
(***************************************************************************)
ResourceMsg(res, amount) == [Msg("resource", 0) EXCEPT !.res = res, !.amount = amount]

\* Game.spend, the first loop: whether some cost exceeds its pool.
Short(p, costs) == \E k \in 1 .. Len(costs) : p[costs[k][1]] < costs[k][2]

\* Game.spend: frame.i = 0 is the first loop (the check), i >= 1 the debit of
\* cost i, each followed by its broadcast.
spend(s, t) ==
    LET f == Top(s, t)
    IN IF f.i = 0
       THEN IF Short(s.pools, f.costs)
            THEN {Raise(s, t, "ClientError")}
            ELSE {Goto(s, t, <<[f EXCEPT !.i = 1]>>)}
       ELSE IF f.i > Len(f.costs)
       THEN {Goto(s, t, <<>>)}
       ELSE {Goto([s EXCEPT !.pools[f.costs[f.i][1]] = @ - f.costs[f.i][2]], t,
                  << BroadcastFrame(ResourceMsg(f.costs[f.i][1], -f.costs[f.i][2])),
                     [f EXCEPT !.i = f.i + 1] >>)}

\* Game.add_resource
add_resource(s, t) ==
    LET f == Top(s, t)
    IN {Goto([s EXCEPT !.pools[f.res] = @ + f.amount], t,
             <<BroadcastFrame(ResourceMsg(f.res, f.amount))>>)}

\* for resource_type, amount in self.costs: await game.add_resource(resource_type, amount//2)
Refunds(costs) ==
    [k \in 1 .. Len(costs) |->
        [op |-> "add_resource", res |-> costs[k][1], amount |-> costs[k][2] \div 2]]

(***************************************************************************)
(* Behaviours: on_activate.                                                *)
(***************************************************************************)
Beh(s, t) == s.ent[Top(s, t).id].behaviours[Top(s, t).i]

\* AttackBehaviour.on_activate
Attack_on_activate(s, t) ==
    LET f == Top(s, t)
        b == Beh(s, t)
        manual == /\ b.manual_target # 0
                  /\ Alive(s, b.manual_target)
                  /\ distance(s.ent[b.manual_target].position, s.ent[f.id].position)
                        <= b.range
        enemies == IF manual THEN {b.manual_target}
                   ELSE find_enemy_nearby(s, f.id, b.range)
    IN UNION { IF enemy = 0
               THEN ReloadNow(s, t, FALSE)
               ELSE {Goto(s, t, << [op |-> "handle_attack", attacker |-> f.id,
                                    target |-> enemy, amount |-> amount],
                                   [op |-> "reload", id |-> f.id, i |-> f.i,
                                    ok |-> TRUE] >>)
                        : amount \in b.min_damage .. b.max_damage}
               : enemy \in enemies }

\* RepairBehaviour.on_activate: the first neighbour, in the order of
\* Position.neighbors, that holds a damaged structure of the entity's side.
RECURSIVE RepairTarget(_, _, _)
RepairTarget(s, id, k) ==
    IF k > 6 THEN 0
    ELSE LET p == neighbors(s.ent[id].position)[k]
             o == IF p \in Cells THEN s.map[p] ELSE 0
         IN IF /\ o # 0
               /\ s.ent[o].alignment = s.ent[id].alignment
               /\ Has(s.ent[o].entity_tag, Structure)
               /\ s.ent[o].hp # s.ent[o].max_hp
            THEN o
            ELSE RepairTarget(s, id, k + 1)

Repair_on_activate(s, t) ==
    LET f == Top(s, t)
        structure == RepairTarget(s, f.id, 1)
    IN IF structure = 0
       THEN ReloadNow(s, t, FALSE)
       ELSE {Goto(s, t, << [op |-> "heal_entity", id |-> structure,
                            amount |-> Beh(s, t).amount],
                           [op |-> "reload", id |-> f.id, i |-> f.i, ok |-> TRUE] >>)}

\* Game.move_entity
move_entity(s, t) ==
    LET f == Top(s, t)
        e == s.ent[f.id]
        grows == e.alignment = Player /\ ~Covered(s.revealed, f.pos, e.vision_size)
    IN IF e.position = f.pos
       THEN {Goto(s, t, <<>>)}
       ELSE IF InMap(s, f.pos)
       THEN {Raise(s, t, "ValueError")}
       ELSE {Goto([s EXCEPT !.map = [@ EXCEPT ![e.position] = 0, ![f.pos] = f.id],
                            !.ent[f.id].position = f.pos,
                            !.revealed = IF grows THEN @ \cup {<<f.pos, e.vision_size>>}
                                         ELSE @,
                            !.queued_updates = @ \cup {f.id}],
                  t, IF grows THEN <<BroadcastFrame(Msg("reveal", 0))>> ELSE <<>>)}

\* The steps PathingBehaviour.move_toward may take first, NoPosition for an
\* empty path.  path_between replaces its best position only by a popped one
\* nearer to the target, and never queues a position of the map: next to an
\* occupied target no position is nearer, and the path is empty.  For the
\* other starts the first step is a free neighbour of the start, or none.
FirstSteps(s, from, target) ==
    IF from = target \/ (distance(from, target) = 1 /\ InMap(s, target))
    THEN {NoPosition}
    ELSE {NoPosition} \cup {p \in SeqToSet(neighbors(from)) \cap Cells : ~InMap(s, p)}

\* WorkerBehaviour.on_activate, with PathingBehaviour.on_activate first.  The
\* path is walked while its next step is free; then the target is gone for;
\* a worker without a target has nothing to gather here and returns False.
Worker_on_activate(s, t) ==
    LET f == Top(s, t)
        b == Beh(s, t)
        e == s.ent[f.id]
        done == [op |-> "reload", id |-> f.id, i |-> f.i, ok |-> TRUE]
        blocked == b.path # <<>> /\ InMap(s, Head(b.path))
        s1 == IF blocked THEN [s EXCEPT !.ent[f.id].behaviours[f.i].path = <<>>] ELSE s
    IN IF b.path # <<>> /\ ~blocked
       THEN {Goto([s EXCEPT !.ent[f.id].behaviours[f.i].path = Tail(@)], t,
                  << [op |-> "move_entity", id |-> f.id, pos |-> Head(b.path)], done >>)}
       ELSE IF b.target_position = NoPosition
       THEN ReloadNow(s1, t, FALSE)
       ELSE IF e.position = b.target_position
       THEN ReloadNow([s1 EXCEPT !.ent[f.id].behaviours[f.i].target_position = NoPosition],
                      t, FALSE)
       ELSE { IF p = NoPosition
              THEN Goto(s1, t, <<done>>)
              ELSE Goto(s1, t, << [op |-> "move_entity", id |-> f.id, pos |-> p], done >>)
              : p \in FirstSteps(s1, e.position, b.target_position) }

\* SummonPoolBehaviour.on_activate: the while loop, one pass for each frame.
summon(s, t) ==
    LET f == Top(s, t)
        b == Beh(s, t)
        options == {unit \in DOMAIN b.units : b.units[unit] < f.remaining_strength}
    IN IF f.remaining_strength > 0 /\ options # {}
       THEN {Goto(s, t, << AddEntityFrame(unit, "near", f.id, Origin,
                                          s.ent[f.id].alignment, 0),
                           [f EXCEPT !.remaining_strength = @ - b.units[unit]] >>)
               : unit \in options}
       ELSE {Goto(s, t, <<[op |-> "reload", id |-> f.id, i |-> f.i, ok |-> TRUE]>>)}

SummonPool_on_activate(s, t) ==
    LET f == Top(s, t)
    IN {Goto(s, t, <<[op |-> "summon", id |-> f.id, i |-> f.i,
                      remaining_strength |-> Beh(s, t).strength]>>)}

\* SummonBehaviour.on_activate
Summon_on_activate(s, t) ==
    LET f == Top(s, t)
    IN {Goto(s, t, << AddEntityFrame(Beh(s, t).unit, "near", f.id, Origin,
                                     s.ent[f.id].alignment, 0),
                      [op |-> "reload", id |-> f.id, i |-> f.i, ok |-> TRUE] >>)}

\* on_activate of the behaviour the frame names; Behaviour.on_activate, which
\* Essential, Build, Train and UnderConstruction do not override, returns None.
on_activate(s, t) ==
    CASE Beh(s, t).type = "Attack" -> Attack_on_activate(s, t)
      [] Beh(s, t).type = "Repair" -> Repair_on_activate(s, t)
      [] Beh(s, t).type = "Worker" -> Worker_on_activate(s, t)
      [] Beh(s, t).type = "Summon" -> Summon_on_activate(s, t)
      [] Beh(s, t).type = "SummonPool" -> SummonPool_on_activate(s, t)
      [] OTHER -> ReloadNow(s, t, FALSE)

(***************************************************************************)
(* TrainBehaviour.                                                         *)
(***************************************************************************)
ProgressMsg(id) == Msg("entity/progress", id)

\* TrainBehaviour.on_tick with "self.progress > self.duration": a unit is
\* produced only when the progress passes the duration.
TrainBehaviour_on_tick_past(b, delta) ==
    IF b.queue = 0
    THEN [queue |-> b.queue, progress |-> 0, produce |-> FALSE]
    ELSE IF b.progress + delta > b.duration
    THEN [queue |-> b.queue - 1, progress |-> 0, produce |-> TRUE]
    ELSE [queue |-> b.queue, progress |-> b.progress + delta, produce |-> FALSE]

\* TrainBehaviour.on_tick after super().on_tick: the new queue and progress,
\* and whether a unit is produced.
TrainBehaviour_on_tick(b, delta) ==
    IF b.queue = 0
    THEN [queue |-> b.queue, progress |-> 0, produce |-> FALSE]
    ELSE IF b.progress + delta >= b.duration
    THEN [queue |-> b.queue - 1, progress |-> 0, produce |-> TRUE]
    ELSE [queue |-> b.queue, progress |-> b.progress + delta, produce |-> FALSE]

\* A Train tick is due when it finds the queue non-zero and takes the progress
\* to the duration or past it.
Due(b, delta) == b.queue # 0 /\ b.progress + delta >= b.duration

train_on_tick(s, t) ==
    LET f == Top(s, t)
        b == Beh(s, t)
        r == TrainBehaviour_on_tick(b, f.delta)
    IN {Goto([s EXCEPT !.ent[f.id].behaviours[f.i].queue = r.queue,
                       !.ent[f.id].behaviours[f.i].progress = r.progress,
                       !.trained[f.id].due = IF Due(b, f.delta) THEN @ + 1 ELSE @,
                       !.trained[f.id].last =
                            [queue |-> b.queue, progress |-> b.progress,
                             delta |-> f.delta, ticked |-> TRUE]],
             t,
             IF r.produce
             THEN << AddEntityFrame(b.unit, "near", f.id, Origin,
                                    s.ent[f.id].alignment, f.id),
                     BroadcastFrame(ProgressMsg(f.id)) >>
             ELSE <<>>)}

\* TrainBehaviour.on_command: self.queue += 1 or -= 1, then send_training_update.
\* game.spend has returned before the former and the refunds were made before
\* the latter, which is what trained counts as paid and refunded.
train_queue(s, t) ==
    LET f == Top(s, t)
    IN {Goto([s EXCEPT !.ent[f.id].behaviours[f.i].queue = @ + f.by,
                       !.trained[f.id].paid = IF f.by = 1 THEN @ + 1 ELSE @,
                       !.trained[f.id].refunded = IF f.by = -1 THEN @ + 1 ELSE @,
                       !.trained[f.id].last.ticked = FALSE],
             t, <<BroadcastFrame(ProgressMsg(f.id))>>)}

(***************************************************************************)
(* Commands: Entity.on_command and the behaviours' on_command.  A key is   *)
(* held as <<verb, unit>> for the text "verb/unit".                        *)
(***************************************************************************)
\* Entity.on_command: for behaviour in self.behaviours: try: on_command ...
on_command(s, t) ==
    LET f == Top(s, t)
    IN IF f.i <= Len(s.ent[f.id].behaviours)
       THEN {Goto([s EXCEPT !.received[t].calls =
                                Append(@, [i |-> f.i, raised |-> ""])],
                  t, << [f EXCEPT !.op = "behaviour_on_command"],
                        [f EXCEPT !.i = f.i + 1] >>)}
       ELSE {Goto(s, t, <<>>)}

\* BuildBehaviour.on_command
Build_on_command(s, t) ==
    LET f == Top(s, t)
        b == Beh(s, t)
        r == from_string(f.value)
    IN IF f.key # <<"build", b.unit>>
       THEN {Goto(s, t, <<>>)}
       ELSE IF r.err # ""
       THEN {Raise(s, t, r.err)}
       ELSE IF InMap(s, r.pos)
       THEN {Raise(s, t, "ClientError")}
       ELSE {Goto(s, t, << [op |-> "spend", costs |-> b.costs, i |-> 0],
                           [op |-> "build_entity", builder |-> f.id, i |-> f.i,
                            name |-> b.unit, pos |-> r.pos],
                           [op |-> "build_done", builder |-> f.id, pos |-> r.pos,
                            costs |-> b.costs, pools |-> s.pools] >>)}

\* BuildBehaviour.on_command after build_entity: the builder is sent to the
\* building.  The frame keeps the pools the command found, for the properties.
build_done(s, t) ==
    LET f == Top(s, t)
    IN {Goto([s EXCEPT !.ent[f.builder].behaviours =
                [k \in DOMAIN @ |->
                    IF PathingBehaviour(@[k])
                    THEN [@[k] EXCEPT !.target_position = f.pos]
                    ELSE @[k]]],
             t, <<>>)}

\* UnderConstructionBehaviour.on_command
UnderConstruction_on_command(s, t) ==
    LET f == Top(s, t)
        b == Beh(s, t)
    IN IF f.key = <<"cancel", b.unit>>
       THEN {Goto(s, t, Refunds(b.costs) \o <<[op |-> "remove_entity", id |-> f.id]>>)}
       ELSE {Goto(s, t, <<>>)}

\* TrainBehaviour.on_command
Train_on_command(s, t) ==
    LET f == Top(s, t)
        b == Beh(s, t)
        update(by) == [op |-> "train_queue", id |-> f.id, i |-> f.i, by |-> by]
    IN IF f.key = <<"train", b.unit>>
       THEN {Goto(s, t, << [op |-> "spend", costs |-> b.costs, i |-> 0], update(1) >>)}
       ELSE IF f.key = <<"cancel", b.unit>> /\ b.queue > 0
       THEN {Goto(s, t, Refunds(b.costs) \o <<update(-1)>>)}
       ELSE {Goto(s, t, <<>>)}

\* on_command of the behaviour the frame names; Behaviour.on_command, which
\* the other classes do not override, does nothing.
behaviour_on_command(s, t) ==
    CASE Beh(s, t).type = "Build" -> Build_on_command(s, t)
      [] Beh(s, t).type = "UnderConstruction" -> UnderConstruction_on_command(s, t)
      [] Beh(s, t).type = "Train" -> Train_on_command(s, t)
      [] OTHER -> {Goto(s, t, <<>>)}

\* AttackBehaviour.on_target of behaviour b of entity id: game.map.get gives
\* the occupant, 0 for None.
Attack_on_target(s, id, b, position) ==
    LET target == IF InMap(s, position) THEN s.map[position] ELSE 0
    IN [b EXCEPT !.manual_target =
                    IF target = 0 \/ target = id
                       \/ Has(s.ent[target].entity_tag, Resource)
                    THEN 0 ELSE target]

\* Entity.on_target: on_target of every behaviour, none of which awaits, and
\* the broadcast of entity/target.
Entity_on_target(s, t) ==
    LET f == Top(s, t)
    IN {Goto([s EXCEPT !.ent[f.id].behaviours =
                [k \in DOMAIN @ |->
                    IF @[k].type = "Attack"
                    THEN Attack_on_target(s, f.id, @[k], f.pos)
                    ELSE IF PathingBehaviour(@[k])
                    THEN [@[k] EXCEPT !.target_position =
                              IF InMap(s, f.pos) THEN NoPosition ELSE f.pos]
                    ELSE @[k]]],
             t, <<BroadcastFrame(Msg("entity/target", f.id))>>)}

\* handle_set_target from Position.from_string on: frame.k = 0 is the parse,
\* k >= 1 the pass of the for loop for selected[k].
set_target(s, t) ==
    LET f == Top(s, t)
        r == from_string(f.value)
    IN IF f.k = 0
       THEN IF r.err # ""
            THEN {Raise(s, t, r.err)}
            ELSE {Goto(s, t, <<[f EXCEPT !.k = 1, !.pos = r.pos]>>)}
       ELSE IF f.k > Len(f.selected)
       THEN {Goto(s, t, <<>>)}
       ELSE IF ~Alive(s, f.selected[f.k]) \/ s.ent[f.selected[f.k]].alignment # Player
       THEN {Goto(s, t, <<[f EXCEPT !.k = f.k + 1]>>)}
       ELSE {Goto(s, t, << [op |-> "entity_on_target", id |-> f.selected[f.k],
                            pos |-> f.pos],
                           [f EXCEPT !.k = f.k + 1] >>)}

(***************************************************************************)
(* The event loop runs a task until it suspends in a send or ends.         *)
(***************************************************************************)
\* The next step of the running task: the code its innermost frame is at.
Step(s) ==
    LET t == s.running
        op == Top(s, t).op
    IN CASE op = "broadcast" -> broadcast(s, t)
         [] op = "on_active_tick" -> on_active_tick(s, t)
         [] op = "flush" -> flush(s, t)
         [] op = "entity_on_tick" -> Entity_on_tick(s, t)
         [] op = "behaviours" -> behaviours(s, t)
         [] op = "behaviour_on_tick" -> Behaviour_on_tick(s, t)
         [] op = "on_activate" -> on_activate(s, t)
         [] op = "reload" -> reload(s, t)
         [] op = "summon" -> summon(s, t)
         [] op = "train_on_tick" -> train_on_tick(s, t)
         [] op = "train_queue" -> train_queue(s, t)
         [] op = "add_entity" -> add_entity(s, t)
         [] op = "build_entity" -> build_entity(s, t)
         [] op = "build_done" -> build_done(s, t)
         [] op = "move_entity" -> move_entity(s, t)
         [] op = "remove_entity" -> remove_entity(s, t)
         [] op = "on_remove" -> on_remove(s, t)
         [] op = "handle_attack" -> handle_attack(s, t)
         [] op = "attack_done" -> attack_done(s, t)
         [] op = "heal_entity" -> heal_entity(s, t)
         [] op = "on_heal" -> on_heal(s, t)
         [] op = "spend" -> spend(s, t)
         [] op = "add_resource" -> add_resource(s, t)
         [] op = "on_command" -> on_command(s, t)
         [] op = "behaviour_on_command" -> behaviour_on_command(s, t)
         [] op = "set_target" -> set_target(s, t)
         [] op = "entity_on_target" -> Entity_on_target(s, t)
         [] op \in {"tick_end", "respond"} -> Return(s, t)

RECURSIVE Run(_)
Run(s) == IF s.running = NoTask THEN {s} ELSE UNION {Run(x) : x \in Step(s)}

(***************************************************************************)
(* Init: a game as game/create and some play leave it, seen within         *)
(* GridRadius of the origin: the fortress on the origin with its six       *)
(* base-plate cells (Game.place_fortress), a worker and an enemy raider    *)
(* next to the base plate.  Nobody has subscribed yet.                     *)
(***************************************************************************)
WorkerCell == <<2, 0>>

RaiderCell == <<0, 2>>

NoTrain == [due |-> 0, made |-> 0, paid |-> 0, refunded |-> 0,
            last |-> [queue |-> 0, progress |-> 0, delta |-> 0, ticked |-> FALSE]]

InitWorld ==
    /\ pools = [r \in ResourceTypes |-> StartPool]
    /\ ent = << NewEntity("Fortress", Origin, Player),
                NewEntity("Worker", WorkerCell, Player),
                NewEntity("Raider", RaiderCell, Enemy) >>
    /\ entities = <<1, 2, 3>>
    /\ map = [p \in Cells |->
                IF p = Origin \/ p \in SeqToSet(neighbors(Origin)) THEN 1
                ELSE IF p = WorkerCell THEN 2
                ELSE IF p = RaiderCell THEN 3
                ELSE 0]
    /\ structures = {1}
    /\ units = {2, 3}
    /\ resources = {}
    /\ queued_updates = {}
    /\ revealed = {<<Origin, StartVisionSize>>}
    /\ ev = [i \in Ids |-> [add |-> IF i <= 3 THEN 1 ELSE 0, remove |-> 0,
                            early |-> FALSE, late |-> FALSE, ends |-> <<>>]]
    /\ trained = [i \in Ids |-> NoTrain]

InitTasks ==
    /\ subscribers = {}
    /\ closed = {}
    /\ stack = [t \in Tasks |-> <<>>]
    /\ err = [t \in Tasks |-> ""]
    /\ nreq = [c \in Conns |-> 0]
    /\ ticked = {}
    /\ activated = <<>>
    /\ received = [c \in Conns |-> NoOrder]

InitGame ==
    /\ games = {"g"}
    /\ state = "active"
    /\ inactive = FALSE
    /\ time_since_active = 0
    /\ runtime = 0
    /\ quiet = -1
    /\ InitWorld
    /\ InitTasks

\* No queue is under test and path_between is not called on its own.
NoQueue == [queue |-> PriorityQueue, phase |-> "add", adds |-> <<>>, popped |-> <<>>,
            raised |-> FALSE]

NoCall == [status |-> "none"]

Init ==
    /\ InitGame
    /\ pq = NoQueue
    /\ call = NoCall

(***************************************************************************)
(* Actions: what the event loop is woken by.                               *)
(***************************************************************************)
\* The seconds of the subscriber-less ticks in a row, not counting the first
\* of the row; -1 when the last tick saw a subscriber.
Quiet(q, subs, delta) ==
    IF subs # {} THEN -1 ELSE IF q < 0 THEN 0 ELSE q + delta

\* One iteration of game_thread for the game: Game.on_tick(delta), run until
\* it suspends or ends.  The next iteration waits for the gather of this one.
Tick(delta) ==
    /\ stack["tick"] = <<>>
    /\ "g" \in games
    /\ \E s2 \in Run([on_tick(Cur, delta) EXCEPT
                        !.err["tick"] = "",
                        !.quiet = Quiet(quiet, subscribers, delta)]) :
          Becomes(s2)

\* A send of task t's broadcast has ended; t runs until it suspends or ends.
BroadcastResume(t) ==
    /\ stack[t] # <<>>
    /\ Head(stack[t]).op = "broadcast"
    /\ \E s1 \in broadcast_resume(Cur, t) : \E s2 \in Run(s1) : Becomes(s2)

\* The game/command requests the playing client sends, as <<target, key,
\* value>>: the worker is told to build on a free cell and on a cell of the
\* base plate, and an entity created later to cancel its construction; the
\* fortress is told to train and to cancel.
BuildCommands ==
    { <<2, <<"build", "Arrow Tower">>, <<2, -1>>>>,
      <<2, <<"build", "Arrow Tower">>, <<1, 0>>>> }
    \cup { <<id, <<"cancel", "Arrow Tower">>, <<>>>> : id \in 4 .. MaxIds }

SiteCommands == { <<2, <<"build", "Arrow Tower">>, <<2, -1>>>> }

\* The worker is told to build on either of two free cells next to it.
TwoSites ==
    { <<2, <<"build", "Arrow Tower">>, <<2, -1>>>>,
      <<2, <<"build", "Arrow Tower">>, <<1, 1>>>> }

TrainCommands ==
    { <<1, <<"train", "Worker">>, <<>>>>,
      <<1, <<"cancel", "Worker">>, <<>>>> }

\* A request is read from connection c: its previous request was answered
\* and the websocket is open.
Receives(c) ==
    /\ stack[c] = <<>>
    /\ c \notin closed
    /\ nreq[c] < MaxRequests

\* game/subscribe: handle_game_subscribe.  GameById fails for an id that is
\* not in games, which handle_ws_request answers with an error.
handle_game_subscribe(s, c) ==
    IF "g" \in s.games
    THEN [s EXCEPT !.subscribers = @ \cup {c}, !.err[c] = "", !.nreq[c] = @ + 1]
    ELSE [s EXCEPT !.err[c] = "ValidationError", !.nreq[c] = @ + 1]

Subscribe(c) ==
    /\ Receives(c)
    /\ Becomes(handle_game_subscribe(Cur, c))

\* game/command: handle_command up to the call of Entity.on_command.
handle_command(s, c, target, key, value) ==
    IF "g" \notin s.games
    THEN [s EXCEPT !.err[c] = "ValidationError", !.nreq[c] = @ + 1,
                   !.received[c] = NoOrder]
    ELSE IF s.state # "active" \/ ~Alive(s, target)
    THEN [s EXCEPT !.err[c] = "", !.nreq[c] = @ + 1, !.received[c] = NoOrder]
    ELSE [s EXCEPT !.err[c] = "", !.nreq[c] = @ + 1,
                   !.received[c] = [request |-> s.nreq[c] + 1, id |-> target,
                                    key |-> key, calls |-> <<>>, escaped |-> ""],
                   !.stack[c] = << [op |-> "on_command", id |-> target, i |-> 1,
                                    key |-> key, value |-> value],
                                   [op |-> "respond"] >>,
                   !.running = c]

Command(c, target, key, value) ==
    /\ Receives(c)
    /\ \E s2 \in Run(handle_command(Cur, c, target, key, value)) : Becomes(s2)

\* game/target: handle_set_target up to Position.from_string.
handle_set_target(s, c, selected, position) ==
    IF "g" \notin s.games
    THEN [s EXCEPT !.err[c] = "ValidationError", !.nreq[c] = @ + 1]
    ELSE IF s.state # "active"
    THEN [s EXCEPT !.err[c] = "", !.nreq[c] = @ + 1]
    ELSE [s EXCEPT !.err[c] = "", !.nreq[c] = @ + 1,
                   !.stack[c] = << [op |-> "set_target", selected |-> selected,
                                    k |-> 0, value |-> position, pos |-> Origin],
                                   [op |-> "respond"] >>,
                   !.running = c]

Target(c, selected, position) ==
    /\ Receives(c)
    /\ \E s2 \in Run(handle_set_target(Cur, c, selected, position)) : Becomes(s2)

\* The client of c goes away: every later send to c fails.  Nothing takes c
\* out of Game.subscribers here (ws_subscription discards it from
\* connected_clients only).
Disconnect(c) ==
    /\ c \notin closed
    /\ closed' = closed \cup {c}
    /\ UNCHANGED <<games, state, inactive, time_since_active, runtime, pools, ent,
                   entities, map, structures, units, resources, subscribers,
                   queued_updates, revealed, stack, err, nreq, ev, quiet, trained,
                   ticked, activated, received, pq, call>>

(***************************************************************************)
(* Specifications.  Connection c1 is the client that plays, c2 one that    *)
(* only watches.                                                           *)
(***************************************************************************)
Solo == {"c1"}

\* A tick within the stretch Spec and SpecTrain follow: up to MaxRuntime
\* seconds of active ticks, and idle up to MaxIdle seconds.
ShortTick(delta) ==
    /\ runtime < MaxRuntime
    /\ time_since_active < MaxIdle
    /\ Tick(delta)

\* Building: both clients subscribe and go away, c1 builds and cancels.
Next ==
    \/ \E delta \in Deltas : ShortTick(delta)
    \/ \E c \in Conns : Subscribe(c)
    \/ \E c \in Solo, r \in BuildCommands : Command(c, r[1], r[2], r[3])
    \/ \E c \in Conns : Disconnect(c)
    \/ \E t \in Tasks : BroadcastResume(t)

Spec == Init /\ [][Next]_vars

\* Training: c1 subscribes and has the fortress train and cancel.
NextTrain ==
    \/ \E delta \in Deltas : ShortTick(delta)
    \/ \E c \in Solo : Subscribe(c)
    \/ \E c \in Solo, r \in TrainCommands : Command(c, r[1], r[2], r[3])
    \/ \E t \in Tasks : BroadcastResume(t)

SpecTrain == Init /\ [][NextTrain]_vars

\* Idling: c1 subscribes and goes away while the ticks go on for as long as
\* the game is in the table.
NextIdle ==
    \/ \E delta \in Deltas : Tick(delta)
    \/ \E c \in Solo : Subscribe(c)
    \/ \E c \in Solo : Disconnect(c)
    \/ \E t \in Tasks : BroadcastResume(t)

SpecIdle == Init /\ [][NextIdle]_vars

\* Abandoning: c1 subscribes, may start a tower and goes away, under a steady
\* tick of the longest delta.  game_thread never stops ticking for as long as
\* the game is in the table, and a send, to an open or a closed websocket,
\* ends.
Pace == {2 * MaxDelta}

NextAbandon ==
    \/ \E delta \in Pace : Tick(delta)
    \/ \E c \in Solo : Subscribe(c)
    \/ \E c \in Solo, r \in SiteCommands : Command(c, r[1], r[2], r[3])
    \/ \E c \in Solo : Disconnect(c)
    \/ \E t \in Tasks : BroadcastResume(t)

SpecAbandon ==
    /\ Init
    /\ [][NextAbandon]_vars
    /\ WF_vars(\E delta \in Pace : Tick(delta))
    /\ WF_vars(\E t \in Tasks : BroadcastResume(t))

\* Building: c1 tells the worker to build, twice at most, while either
\* client may subscribe and the ticks go on.
NextBuild ==
    \/ \E delta \in Deltas : ShortTick(delta)
    \/ \E c \in Conns : Subscribe(c)
    \/ \E c \in Solo, r \in TwoSites : Command(c, r[1], r[2], r[3])
    \/ \E t \in Tasks : BroadcastResume(t)

SpecBuild == Init /\ [][NextBuild]_vars

\* Building watched by the builder alone: c1 subscribes and has the worker
\* build next to the raider, on a cell next to the worker and on one out of
\* its reach; nobody else changes the subscribers.
RaidSites ==
    { <<2, <<"build", "Arrow Tower">>, <<1, 1>>>>,
      <<2, <<"build", "Arrow Tower">>, <<-1, 2>>>> }

NextSite ==
    \/ \E delta \in Deltas : ShortTick(delta)
    \/ \E c \in Solo : Subscribe(c)
    \/ \E c \in Solo, r \in RaidSites : Command(c, r[1], r[2], r[3])
    \/ \E t \in Tasks : BroadcastResume(t)

SpecSite == Init /\ [][NextSite]_vars

\* Commands of every outcome: the worker is told to build on a free cell, on
\* the fortress (ClientError) and at a text that is no position (ValueError),
\* and is sent a key none of its behaviours knows.
OrderCommands ==
    { <<2, <<"build", "Arrow Tower">>, <<1, 1>>>>,
      <<2, <<"build", "Arrow Tower">>, <<0, 0>>>>,
      <<2, <<"build", "Arrow Tower">>, <<>>>>,
      <<2, <<"salute", "">>, <<>>>> }

NextOrders ==
    \/ \E delta \in Deltas : ShortTick(delta)
    \/ \E c \in Solo : Subscribe(c)
    \/ \E c \in Solo, r \in OrderCommands : Command(c, r[1], r[2], r[3])
    \/ \E t \in Tasks : BroadcastResume(t)

SpecOrders == Init /\ [][NextOrders]_vars

\* Summoning: in place of the raider a Portal, as Game.place_fortress adds
\* one, summons entities of every kind of template; both clients watch.
InitTags ==
    /\ games = {"g"}
    /\ state = "active"
    /\ inactive = FALSE
    /\ time_since_active = 0
    /\ runtime = 0
    /\ quiet = -1
    /\ pools = [r \in ResourceTypes |-> StartPool]
    /\ ent = << NewEntity("Fortress", Origin, Player),
                NewEntity("Worker", WorkerCell, Player),
                NewEntity("Portal", RaiderCell, Enemy) >>
    /\ entities = <<1, 2, 3>>
    /\ map = [p \in Cells |->
                IF p = Origin \/ p \in SeqToSet(neighbors(Origin)) THEN 1
                ELSE IF p = WorkerCell THEN 2
                ELSE IF p = RaiderCell THEN 3
                ELSE 0]
    /\ structures = {1, 3}
    /\ units = {2}
    /\ resources = {}
    /\ queued_updates = {}
    /\ revealed = {<<Origin, StartVisionSize>>}
    /\ ev = [i \in Ids |-> [add |-> IF i <= 3 THEN 1 ELSE 0, remove |-> 0,
                            early |-> FALSE, late |-> FALSE, ends |-> <<>>]]
    /\ trained = [i \in Ids |-> NoTrain]
    /\ InitTasks
    /\ pq = NoQueue
    /\ call = NoCall

NextTags ==
    \/ \E delta \in Deltas : ShortTick(delta)
    \/ \E c \in Conns : Subscribe(c)
    \/ \E t \in Tasks : BroadcastResume(t)

SpecTags == InitTags /\ [][NextTags]_vars

\* A tick that raises: a Rift stands where the raider stood and was added
\* before the worker, so that the entity table holds the fortress, the Rift
\* and the worker in this order.  c1 subscribes and may have the worker
\* build.  game_thread never stops ticking, and a send ends.
InitStall ==
    /\ games = {"g"}
    /\ state = "active"
    /\ inactive = FALSE
    /\ time_since_active = 0
    /\ runtime = 0
    /\ quiet = -1
    /\ pools = [r \in ResourceTypes |-> StartPool]
    /\ ent = << NewEntity("Fortress", Origin, Player),
                NewEntity("Rift", RaiderCell, Enemy),
                NewEntity("Worker", WorkerCell, Player) >>
    /\ entities = <<1, 2, 3>>
    /\ map = [p \in Cells |->
                IF p = Origin \/ p \in SeqToSet(neighbors(Origin)) THEN 1
                ELSE IF p = RaiderCell THEN 2
                ELSE IF p = WorkerCell THEN 3
                ELSE 0]
    /\ structures = {1, 2}
    /\ units = {3}
    /\ resources = {}
    /\ queued_updates = {}
    /\ revealed = {<<Origin, StartVisionSize>>}
    /\ ev = [i \in Ids |-> [add |-> IF i <= 3 THEN 1 ELSE 0, remove |-> 0,
                            early |-> FALSE, late |-> FALSE, ends |-> <<>>]]
    /\ trained = [i \in Ids |-> NoTrain]
    /\ InitTasks
    /\ pq = NoQueue
    /\ call = NoCall

StallCommands == { <<3, <<"build", "Arrow Tower">>, <<2, -1>>>> }

NextStall ==
    \/ \E delta \in Deltas : Tick(delta)
    \/ \E c \in Solo : Subscribe(c)
    \/ \E c \in Solo, r \in StallCommands : Command(c, r[1], r[2], r[3])
    \/ \E t \in Tasks : BroadcastResume(t)

SpecStall ==
    /\ InitStall
    /\ [][NextStall]_vars
    /\ WF_vars(\E delta \in Deltas : Tick(delta))
    /\ WF_vars(\E t \in Tasks : BroadcastResume(t))

\* Recruiting: a Camp, a structure that trains workers and builds towers at
\* costs with odd amounts, is all the player has; either client has it train,
\* build and cancel.
InitCamp ==
    /\ games = {"g"}
    /\ state = "active"
    /\ inactive = FALSE
    /\ time_since_active = 0
    /\ runtime = 0
    /\ quiet = -1
    /\ pools = [r \in ResourceTypes |-> StartPool]
    /\ ent = << NewEntity("Camp", Origin, Player) >>
    /\ entities = <<1>>
    /\ map = [p \in Cells |-> IF p = Origin THEN 1 ELSE 0]
    /\ structures = {1}
    /\ units = {}
    /\ resources = {}
    /\ queued_updates = {}
    /\ revealed = {<<Origin, StartVisionSize>>}
    /\ ev = [i \in Ids |-> [add |-> IF i <= 1 THEN 1 ELSE 0, remove |-> 0,
                            early |-> FALSE, late |-> FALSE, ends |-> <<>>]]
    /\ trained = [i \in Ids |-> NoTrain]
    /\ InitTasks
    /\ pq = NoQueue
    /\ call = NoCall

CampCommands ==
    { <<1, <<"train", "Worker">>, <<>>>>,
      <<1, <<"cancel", "Worker">>, <<>>>>,
      <<1, <<"build", "Arrow Tower">>, <<2, -1>>>>,
      <<2, <<"cancel", "Arrow Tower">>, <<>>>> }

NextCamp ==
    \/ \E delta \in Pace : ShortTick(delta)
    \/ \E c \in Solo : Subscribe(c)
    \/ \E c \in Conns, r \in CampCommands : Command(c, r[1], r[2], r[3])
    \/ \E t \in Tasks : BroadcastResume(t)

SpecCamp == InitCamp /\ [][NextCamp]_vars

\* A fortress at full health with an arrow tower next to it, and next to both
\* the enemy's warlord, whose death is the player's objective.
InitDuel ==
    /\ games = {"g"}
    /\ state = "active"
    /\ inactive = FALSE
    /\ time_since_active = 0
    /\ runtime = 0
    /\ quiet = -1
    /\ pools = [r \in ResourceTypes |-> StartPool]
    /\ ent = << NewEntity("Fortress", Origin, Player),
                NewEntity("Warlord", <<1, 0>>, Enemy),
                NewEntity("Arrow Tower", <<1, -1>>, Player) >>
    /\ entities = <<1, 2, 3>>
    /\ map = [p \in Cells |-> CASE p = Origin -> 1
                                [] p = <<1, 0>> -> 2
                                [] p = <<1, -1>> -> 3
                                [] OTHER -> 0]
    /\ structures = {1, 3}
    /\ units = {2}
    /\ resources = {}
    /\ queued_updates = {}
    /\ revealed = {<<Origin, StartVisionSize>>}
    /\ ev = [i \in Ids |-> [add |-> IF i <= 3 THEN 1 ELSE 0, remove |-> 0,
                            early |-> FALSE, late |-> FALSE, ends |-> <<>>]]
    /\ trained = [i \in Ids |-> NoTrain]
    /\ InitTasks
    /\ pq = NoQueue
    /\ call = NoCall

\* The game/target requests of the player: everything is selected and sent
\* to the fortress, to the warlord or to a free cell.
DuelTargets == {<<1, 2, 3>>} \X {Origin, <<1, 0>>, <<0, 1>>}

NextDuel ==
    \/ \E delta \in Deltas : ShortTick(delta)
    \/ \E c \in Solo : Subscribe(c)
    \/ \E c \in Solo, r \in DuelTargets : Target(c, r[1], r[2])
    \/ \E t \in Tasks : BroadcastResume(t)

SpecDuel == InitDuel /\ [][NextDuel]_vars

\* The whole life of a game.  At first there is no game: the Game fields
\* hold the defaults of a Game that game/create is about to construct.
InitLobby ==
    /\ games = {}
    /\ state = "lobby"
    /\ inactive = FALSE
    /\ time_since_active = 0
    /\ runtime = 0
    /\ quiet = -1
    /\ pools = [r \in ResourceTypes |-> StartPool]
    /\ ent = <<>>
    /\ entities = <<>>
    /\ map = [p \in Cells |-> 0]
    /\ structures = {}
    /\ units = {}
    /\ resources = {}
    /\ queued_updates = {}
    /\ revealed = {<<Origin, StartVisionSize>>}
    /\ ev = [i \in Ids |-> [add |-> 0, remove |-> 0, early |-> FALSE, late |-> FALSE, ends |-> <<>>]]
    /\ trained = [i \in Ids |-> NoTrain]
    /\ InitTasks
    /\ pq = NoQueue
    /\ call = NoCall

\* handle_game_create, seen within GridRadius of the origin: place_fortress
\* adds the fortress with its base plate and, at a spawn point, an enemy
\* structure that summons, here a Den on RaiderCell; the towers and the
\* resources lie further out.  Nobody is subscribed to the new game, so no
\* broadcast of it suspends.  The game is put in the table and made Active.
handle_game_create(s) ==
    [s EXCEPT !.ent = << NewEntity("Fortress", Origin, Player),
                         NewEntity("Den", RaiderCell, Enemy) >>,
              !.entities = <<1, 2>>,
              !.map = [p \in Cells |->
                        IF p = Origin \/ p \in SeqToSet(neighbors(Origin)) THEN 1
                        ELSE IF p = RaiderCell THEN 2
                        ELSE 0],
              !.structures = {1, 2},
              !.ev = [i \in Ids |-> IF i <= 2 THEN [@[i] EXCEPT !.add = 1] ELSE @[i]],
              !.games = {"g"},
              !.state = "active"]

GameCreate ==
    /\ games = {}
    /\ state = "lobby"
    /\ Becomes(handle_game_create(Cur))

NextLife ==
    \/ GameCreate
    \/ \E delta \in Pace : Tick(delta)
    \/ \E c \in Solo : Subscribe(c)
    \/ \E t \in Tasks : BroadcastResume(t)

SpecLife == InitLobby /\ [][NextLife]_vars

(***************************************************************************)
(* A PriorityQueue on its own: its methods called in any order on a queue  *)
(* that starts empty.  pq.adds holds the add calls and pq.popped the items *)
(* returned while the calls are adds followed by pops (phase "add", then   *)
(* "pop"); any other call ends that (phase "mixed").                       *)
(***************************************************************************)
Items == {"x", "y", "z"}

Priorities == 1 .. MaxPriority

Mixed(q) == [NoQueue EXCEPT !.queue = q, !.phase = "mixed"]

QAdd(item, priority) ==
    /\ pq.queue.counter < MaxAdds
    /\ Len(pq.adds) < MaxAdds
    /\ pq' = IF pq.phase = "add"
             THEN [pq EXCEPT !.queue = add(@, item, priority),
                             !.adds = Append(@, <<item, priority>>)]
             ELSE Mixed(add(pq.queue, item, priority))
    /\ UNCHANGED <<games, state, inactive, time_since_active, runtime, pools, ent,
                   entities, map, structures, units, resources, subscribers,
                   queued_updates, revealed, closed, stack, err, nreq, ev, quiet,
                   trained, ticked, activated, received, call>>

QPop ==
    /\ LET r == pop(pq.queue)
       IN pq' = IF pq.phase = "mixed"
                THEN [Mixed(r.queue) EXCEPT !.raised = r.raised]
                ELSE [pq EXCEPT !.queue = r.queue, !.phase = "pop",
                                !.popped = IF r.raised THEN @ ELSE @ \o r.item,
                                !.raised = r.raised]
    /\ UNCHANGED <<games, state, inactive, time_since_active, runtime, pools, ent,
                   entities, map, structures, units, resources, subscribers,
                   queued_updates, revealed, closed, stack, err, nreq, ev, quiet,
                   trained, ticked, activated, received, call>>

QRemove(item) ==
    /\ item \in DOMAIN pq.queue.entries
    /\ pq' = Mixed(remove(pq.queue, item))
    /\ UNCHANGED <<games, state, inactive, time_since_active, runtime, pools, ent,
                   entities, map, structures, units, resources, subscribers,
                   queued_updates, revealed, closed, stack, err, nreq, ev, quiet,
                   trained, ticked, activated, received, call>>

QPeek ==
    /\ LET r == peek(pq.queue)
       IN pq' = [Mixed(r.queue) EXCEPT !.raised = r.raised]
    /\ UNCHANGED <<games, state, inactive, time_since_active, runtime, pools, ent,
                   entities, map, structures, units, resources, subscribers,
                   queued_updates, revealed, closed, stack, err, nreq, ev, quiet,
                   trained, ticked, activated, received, call>>

NextQueue ==
    \/ \E item \in Items, priority \in Priorities : QAdd(item, priority)
    \/ QPop
    \/ \E item \in Items : QRemove(item)
    \/ QPeek

SpecQueue == Init /\ [][NextQueue]_vars

(***************************************************************************)
(* Game.path_between on its own: one call, on a map whose free cells lie   *)
(* in a strip two cells wide that occupied cells surround.  One action is  *)
(* one pass of the while loop.  call.popped holds what queue.pop returned. *)
(***************************************************************************)
PathCells == {0, 1} \X (0 .. PathLength)

Border == {p \in UNION {SeqToSet(neighbors(c)) : c \in PathCells} : p \notin PathCells}

Maps == {m \cup Border : m \in SUBSET PathCells}

\* No pass at all, a limit that cuts the search short, and one the strip
\* cannot reach.
Limits == {0, MaxLimit \div 2, MaxLimit}

\* Position.random_neighbors: the orders random.shuffle can leave the
\* positions of S in.
RECURSIVE Orders(_)
Orders(S) ==
    IF S = {} THEN {<<>>}
    ELSE UNION {{<<x>> \o o : o \in Orders(S \ {x})} : x \in S}

\* Game.resolve_path: the cursors appended on the way back to the start.
RECURSIVE walk_back(_, _, _)
walk_back(start_position, cursor, previous_positions) ==
    IF cursor = start_position THEN <<>>
    ELSE <<cursor>> \o walk_back(start_position, previous_positions[cursor],
                                 previous_positions)

Reverse(s) == [i \in 1 .. Len(s) |-> s[Len(s) + 1 - i]]

\* Game.resolve_path without path.reverse().
resolve_path_backward(start_position, target_position, previous_positions) ==
    walk_back(start_position, target_position, previous_positions)

resolve_path(start_position, target_position, previous_positions) ==
    Reverse(walk_back(start_position, target_position, previous_positions))

\* path_between up to its while loop.
path_between(m, start_position, target_position, limit) ==
    [status |-> "running", map |-> m, start_position |-> start_position,
     target_position |-> target_position, limit |-> limit,
     queue |-> add(PriorityQueue, start_position,
                   2 * distance(target_position, start_position)),
     previous_positions |-> Put(<<>>, start_position, NoPosition),
     least_distances |-> Put(<<>>, start_position, 0),
     best_target |-> start_position,
     best_target_distance |-> distance(target_position, start_position),
     steps |-> 0, popped |-> <<>>, path |-> <<>>]

\* The neighbours of position the for loop records and queues: the free ones
\* not reached yet, or reached by a longer way.
Queued(c, position) ==
    {n \in SeqToSet(neighbors(position)) :
        /\ n \notin c.map
        /\ \/ n \notin DOMAIN c.least_distances
           \/ c.least_distances[position] + 1 < c.least_distances[n]}

\* The body of the for loop for the neighbours of order.
RECURSIVE visit(_, _, _)
visit(c, position, order) ==
    IF order = <<>> THEN c
    ELSE LET neighbor == Head(order)
             dist == c.least_distances[position] + 1
         IN visit([c EXCEPT
                     !.previous_positions = Put(@, neighbor, position),
                     !.least_distances = Put(@, neighbor, dist),
                     !.queue = add(@, neighbor,
                                   dist + 2 * distance(c.target_position, neighbor))],
                  position, Tail(order))

Returned(c) ==
    [c EXCEPT !.status = "returned",
              !.path = resolve_path(c.start_position, c.best_target,
                                    c.previous_positions)]

\* One pass of the while loop.  The for loop changes nothing for a neighbour
\* it does not queue, so of the shuffled order only the order of the queued
\* neighbours matters.
PathIterate ==
    /\ call.status = "running"
    /\ bool(call.queue) /\ call.steps < call.limit
    /\ LET r == pop(call.queue)
           position == r.item[1]
           c1 == [call EXCEPT !.steps = @ + 1, !.queue = r.queue]
           c2 == [c1 EXCEPT !.popped = Append(@, position)]
           nearer == distance(call.target_position, position) < call.best_target_distance
           c3 == IF nearer
                 THEN [c2 EXCEPT !.best_target = position,
                                 !.best_target_distance =
                                     distance(call.target_position, position)]
                 ELSE c2
       IN IF r.raised THEN call' = [c1 EXCEPT !.status = "raised"]
          ELSE IF position = call.target_position
          THEN call' = Returned([c2 EXCEPT !.best_target = call.target_position])
          ELSE \E order \in Orders(Queued(c3, position)) :
                  call' = visit(c3, position, order)
    /\ UNCHANGED <<games, state, inactive, time_since_active, runtime, pools, ent,
                   entities, map, structures, units, resources, subscribers,
                   queued_updates, revealed, closed, stack, err, nreq, ev, quiet,
                   trained, ticked, activated, received, pq>>

\* The while loop ends: the queue is falsy or the limit is reached.
PathReturn ==
    /\ call.status = "running"
    /\ ~(bool(call.queue) /\ call.steps < call.limit)
    /\ call' = Returned(call)
    /\ UNCHANGED <<games, state, inactive, time_since_active, runtime, pools, ent,
                   entities, map, structures, units, resources, subscribers,
                   queued_updates, revealed, closed, stack, err, nreq, ev, quiet,
                   trained, ticked, activated, received, pq>>

InitPath ==
    /\ InitGame
    /\ pq = NoQueue
    /\ call \in {path_between(m, start_position, target_position, limit) :
                   m \in Maps, start_position \in PathCells,
                   target_position \in PathCells, limit \in Limits}

NextPath ==
    \/ PathIterate
    \/ PathReturn

SpecPath == InitPath /\ [][NextPath]_vars

(***************************************************************************)
(* A TransmuteBehaviour on its own: commands set it up and it is activated *)
(* on pools of Purse each.  Amounts are exact: resource_values are counted *)
(* in tenths, the efficiency in hundredths, and the remainder as the       *)
(* numerator of a fraction over Denominator.                               *)
(***************************************************************************)
Null == ""

resource_type_map ==
    [v \in {"", "Food", "Gold", "Stone", "Wood", "Aether"} |->
        CASE v = "" -> Null
          [] v = "Food" -> "food"
          [] v = "Gold" -> "gold"
          [] v = "Stone" -> "stone"
          [] v = "Wood" -> "wood"
          [] v = "Aether" -> "aether"]

resource_values == [food |-> 5, stone |-> 5, wood |-> 5, gold |-> 10, aether |-> 50]

TransmuteBehaviour(cooldown, maximum_rate, efficiency) ==
    [type |-> "Transmute", cooldown |-> cooldown, time_until_activation |-> 0,
     current_rate |-> 0, maximum_rate |-> maximum_rate, efficiency |-> efficiency,
     from_resource |-> Null, to_resource |-> Null, remainder |-> 0]

\* remainder / Denominator(b) is TransmuteBehaviour.remainder
Denominator(b) == resource_values[b.to_resource] * 100

\* TransmuteBehaviour.on_command, value being int(value) for the key "rate":
\* the behaviour it leaves and what it raises.
Transmute_on_command(b, key, value) ==
    CASE key = "from_resource" ->
           IF value \in DOMAIN resource_type_map
           THEN [b |-> [b EXCEPT !.from_resource = resource_type_map[value],
                                 !.remainder = 0], raised |-> ""]
           ELSE [b |-> b, raised |-> "KeyError"]
      [] key = "to_resource" ->
           IF value \in DOMAIN resource_type_map
           THEN [b |-> [b EXCEPT !.to_resource = resource_type_map[value],
                                 !.remainder = 0], raised |-> ""]
           ELSE [b |-> b, raised |-> "KeyError"]
      [] key = "rate" ->
           IF value > b.maximum_rate \/ value < 0
           THEN [b |-> b, raised |-> "ClientError"]
           ELSE [b |-> [b EXCEPT !.current_rate = value, !.remainder = 0], raised |-> ""]
      [] OTHER -> [b |-> b, raised |-> ""]

\* on_activate with "self.remainder = 0.0" in place of the carry.
Transmute_on_activate_forgetful(b, p) ==
    IF b.from_resource = Null \/ b.to_resource = Null \/ b.current_rate = 0
    THEN [b |-> b, pools |-> p, ok |-> FALSE, sold |-> 0, purchased |-> 0]
    ELSE LET goods_sold == b.current_rate
             fractional == goods_sold * resource_values[b.from_resource] * b.efficiency
                           + b.remainder
             goods_purchased == fractional \div Denominator(b)
             b2 == [b EXCEPT !.remainder = 0]
         IN IF Short(p, << <<b.from_resource, goods_sold>> >>)
            THEN [b |-> b2, pools |-> p, ok |-> FALSE, sold |-> 0, purchased |-> 0]
            ELSE [b |-> b2,
                  pools |-> [[p EXCEPT ![b.from_resource] = @ - goods_sold]
                                EXCEPT ![b.to_resource] = @ + goods_purchased],
                  ok |-> TRUE, sold |-> goods_sold, purchased |-> goods_purchased]

\* TransmuteBehaviour.on_activate on the pools p: the behaviour and the pools
\* it leaves, what it returns, and what Game.spend and Game.add_resource were
\* given.  goods_purchased_fractional is fractional / Denominator(b).
Transmute_on_activate(b, p) ==
    IF b.from_resource = Null \/ b.to_resource = Null \/ b.current_rate = 0
    THEN [b |-> b, pools |-> p, ok |-> FALSE, sold |-> 0, purchased |-> 0]
    ELSE LET goods_sold == b.current_rate
             fractional == goods_sold * resource_values[b.from_resource] * b.efficiency
                           + b.remainder
             goods_purchased == fractional \div Denominator(b)
             b2 == [b EXCEPT !.remainder = fractional - goods_purchased * Denominator(b)]
         IN IF Short(p, << <<b.from_resource, goods_sold>> >>)
            THEN [b |-> b2, pools |-> p, ok |-> FALSE, sold |-> 0, purchased |-> 0]
            ELSE [b |-> b2,
                  pools |-> [[p EXCEPT ![b.from_resource] = @ - goods_sold]
                                EXCEPT ![b.to_resource] = @ + goods_purchased],
                  ok |-> TRUE, sold |-> goods_sold, purchased |-> goods_purchased]

\* The commands sent to the behaviour: resources by their names, among them
\* none and one that does not exist, and rates in and out of 0 .. maximum_rate.
TransmuteCommands ==
    ({"from_resource", "to_resource"} \X {"Food", "Gold", "", "Mud"})
    \cup ({"rate"} \X {-1, 1, 3, 15, 16})
    \cup {<<"cancel", "">>}

\* The behaviour as from_yaml builds it with Rate 15 and Efficiency 0.8.
\* run counts the activations that returned True, one after the other, since
\* the last command that set the remainder to 0, with what they sold and
\* purchased; run.clean is FALSE once an activation has returned False.
NewRun == [clean |-> TRUE, activations |-> 0, sold |-> 0, purchased |-> 0]

InitTransmute ==
    /\ InitGame
    /\ pq = NoQueue
    /\ call = [status |-> "transmute", behaviour |-> TransmuteBehaviour(1, 15, 80),
               pools |-> [r \in ResourceTypes |-> Purse], run |-> NewRun,
               total |-> 0, commands |-> 0, raised |-> ""]

TransmuteCommand(key, value) ==
    /\ call.status = "transmute"
    /\ call.commands < MaxCommands
    /\ LET r == Transmute_on_command(call.behaviour, key, value)
       IN call' = [call EXCEPT !.behaviour = r.b, !.raised = r.raised,
                               !.commands = @ + 1,
                               !.run = IF key \in {"from_resource", "to_resource", "rate"}
                                          /\ r.raised = ""
                                       THEN NewRun ELSE @]
    /\ UNCHANGED <<games, state, inactive, time_since_active, runtime, pools, ent,
                   entities, map, structures, units, resources, subscribers,
                   queued_updates, revealed, closed, stack, err, nreq, ev, quiet,
                   trained, ticked, activated, received, pq>>

TransmuteActivate ==
    /\ call.status = "transmute"
    /\ call.total < MaxActivations
    /\ LET r == Transmute_on_activate(call.behaviour, call.pools)
       IN call' = [call EXCEPT
                     !.behaviour = r.b, !.pools = r.pools, !.raised = "",
                     !.total = @ + 1,
                     !.run = IF r.ok /\ @.clean
                             THEN [@ EXCEPT !.activations = @ + 1,
                                            !.sold = @ + r.sold,
                                            !.purchased = @ + r.purchased]
                             ELSE [@ EXCEPT !.clean = FALSE]]
    /\ UNCHANGED <<games, state, inactive, time_since_active, runtime, pools, ent,
                   entities, map, structures, units, resources, subscribers,
                   queued_updates, revealed, closed, stack, err, nreq, ev, quiet,
                   trained, ticked, activated, received, pq>>

NextTransmute ==
    \/ \E c \in TransmuteCommands : TransmuteCommand(c[1], c[2])
    \/ TransmuteActivate

SpecTransmute == InitTransmute /\ [][NextTransmute]_vars

(***************************************************************************)
(* A SummonPoolBehaviour on its own: one activation after the other, for   *)
(* every table of two units with integer costs and every strength.         *)
(* call.spent is the cost of the units the activation has added so far and *)
(* call.odd tells whether the number of passes of its loop is odd.         *)
(***************************************************************************)
PoolUnits == {"Grunt", "Golem"}

InitSummon ==
    /\ InitGame
    /\ pq = NoQueue
    /\ \E table \in [PoolUnits -> 0 .. MaxCost], strength \in 0 .. MaxStrength :
         call = [status |-> "summon",
                 behaviour |-> SummonPoolBehaviour(0, table, strength),
                 remaining_strength |-> strength, spent |-> 0, odd |-> FALSE,
                 at |-> "while"]

\* options = [(unit, cost) for unit, cost in self.units.items() if cost < remaining_strength]
PoolOptions(c) ==
    {unit \in DOMAIN c.behaviour.units : c.behaviour.units[unit] < c.remaining_strength}

\* SummonPoolBehaviour.on_activate: one pass of the while loop, which adds
\* the unit random.choice picks.
SummonPass(unit) ==
    /\ call.status = "summon"
    /\ call.at = "while"
    /\ call.remaining_strength > 0
    /\ unit \in PoolOptions(call)
    /\ call' = [call EXCEPT !.remaining_strength = @ - call.behaviour.units[unit],
                            !.spent = @ + call.behaviour.units[unit],
                            !.odd = ~@]
    /\ UNCHANGED <<games, state, inactive, time_since_active, runtime, pools, ent,
                   entities, map, structures, units, resources, subscribers,
                   queued_updates, revealed, closed, stack, err, nreq, ev, quiet,
                   trained, ticked, activated, received, pq>>

\* The loop is left, by its condition or by the break, and on_activate returns.
SummonReturn ==
    /\ call.status = "summon"
    /\ call.at = "while"
    /\ call.remaining_strength <= 0 \/ PoolOptions(call) = {}
    /\ call' = [call EXCEPT !.at = "returned"]
    /\ UNCHANGED <<games, state, inactive, time_since_active, runtime, pools, ent,
                   entities, map, structures, units, resources, subscribers,
                   queued_updates, revealed, closed, stack, err, nreq, ev, quiet,
                   trained, ticked, activated, received, pq>>

NextSummon ==
    \/ \E unit \in PoolUnits : SummonPass(unit)
    \/ SummonReturn

\* An activation that has begun goes on: the loop is plain Python between
\* two awaits of add_entity, which end.
SpecSummon ==
    /\ InitSummon
    /\ [][NextSummon]_vars
    /\ WF_vars(NextSummon)

(***************************************************************************)
(* Movers.  A mover with one Pathing behaviour in a corridor one cell      *)
(* wide, the row r = 0 from the origin eastwards, whose two western cells  *)
(* a structure holds; the cells around the corridor are occupied.  Other   *)
(* entities come into the corridor and leave it.  call.map gives what a    *)
(* cell of Game.map holds, call.last what the latest call did.             *)
(***************************************************************************)
Row == {<<q, 0>> : q \in 0 .. MaxRow}

MoverStart == <<2, 0>>

Free == ""

\* Game.path_between in the corridor: the cells from position towards
\* target_position, the latter included, as far as they are free.
RECURSIVE corridor_path(_, _, _)
corridor_path(m, position, target_position) ==
    IF position = target_position THEN <<>>
    ELSE LET step == IF target_position[1] > position[1] THEN 1 ELSE -1
             next == <<position[1] + step, 0>>
         IN IF m[next] # Free THEN <<>>
            ELSE <<next>> \o corridor_path(m, next, target_position)

MovingBehaviour(type, carry_capacity) ==
    [type |-> type, target_position |-> NoPosition, path |-> <<>>,
     target_resource |-> NoPosition, carry_capacity |-> carry_capacity,
     carry_amount |-> 0, carried_resource |-> Null]

NoLast == [op |-> "", position |-> NoPosition, held |-> Free, cleared |-> FALSE,
           planned |-> -1, from |-> NoPosition, ok |-> FALSE]

\* Game.move_entity of the mover to a free position.
Moved(c, position) ==
    [c EXCEPT !.map = [@ EXCEPT ![c.position] = Free, ![position] = "mover"],
              !.position = position]

\* PathingBehaviour.move_toward
move_toward(c, target_position) ==
    LET path == corridor_path(c.map, c.position, target_position)
        kept == SubSeq(path, 1, Min(Len(path), Len(path) \div 5 + 1))
        noted == [c EXCEPT !.last.planned = Len(path)]
    IN IF path = <<>> THEN [c |-> noted, ok |-> FALSE]
       ELSE IF Len(kept) = 1
       THEN [c |-> Moved(noted, kept[1]), ok |-> TRUE]
       ELSE [c |-> Moved([noted EXCEPT !.behaviour.path = Reverse(Tail(kept))], kept[1]),
             ok |-> TRUE]

\* PathingBehaviour.on_activate; path.pop() takes the last position.
Pathing_on_activate(c) ==
    LET b == c.behaviour
        next_position == b.path[Len(b.path)]
        blocked == b.path # <<>> /\ c.map[next_position] # Free
        c1 == IF blocked
              THEN [c EXCEPT !.behaviour.path = <<>>, !.last.cleared = TRUE]
              ELSE c
    IN IF b.path # <<>> /\ ~blocked
       THEN [c |-> Moved([c EXCEPT !.behaviour.path = SubSeq(@, 1, Len(@) - 1)],
                         next_position),
             ok |-> TRUE]
       ELSE IF b.target_position = NoPosition
       THEN [c |-> c1, ok |-> FALSE]
       ELSE IF c.position = b.target_position
       THEN [c |-> [c1 EXCEPT !.behaviour.target_position = NoPosition], ok |-> FALSE]
       ELSE [c |-> move_toward(c1, b.target_position).c, ok |-> TRUE]

\* WorkerBehaviour.on_activate after super().on_activate returned False.
\* The resource types of the corridor are all "wood".
Worker_gathers(c) ==
    LET home == distance(c.position, Origin) <= 2 /\ c.behaviour.carried_resource # Null
        c1 == IF home
              THEN [c EXCEPT !.pool = Min(@ + c.behaviour.carry_amount, MaxHaul),
                             !.behaviour.carry_amount = 0,
                             !.behaviour.carried_resource = Null]
              ELSE c
        b == c1.behaviour
    IN IF b.carry_amount = b.carry_capacity
       THEN [c |-> move_toward(c1, Origin).c, ok |-> TRUE]
       ELSE IF b.target_resource # NoPosition
       THEN IF distance(c1.position, b.target_resource) = 1
            THEN [c |-> [c1 EXCEPT
                           !.behaviour.carry_amount =
                               (IF b.carried_resource # "wood" THEN 0 ELSE @) + 5,
                           !.behaviour.carried_resource = "wood"],
                  ok |-> TRUE]
            ELSE [c |-> move_toward(c1, b.target_resource).c, ok |-> TRUE]
       ELSE [c |-> c1, ok |-> FALSE]

\* on_activate of the mover's behaviour.
Mover_on_activate(c) ==
    LET r == Pathing_on_activate(c)
    IN IF c.behaviour.type = "Worker" /\ ~r.ok THEN Worker_gathers(r.c) ELSE r

\* PathingBehaviour.on_target
Pathing_on_target(c, position) ==
    [c EXCEPT !.behaviour.target_position =
                  IF c.map[position] = Free THEN position ELSE NoPosition]

\* WorkerBehaviour.on_target
Worker_on_target(c, position) ==
    LET c1 == [Pathing_on_target(c, position) EXCEPT
                  !.behaviour.target_resource = NoPosition]
    IN IF c.map[position] # "resource"
       THEN [c1 EXCEPT !.behaviour.target_position = position]
       ELSE [c1 EXCEPT !.behaviour.target_resource = position]

\* from_yaml: Capacity is any number, a multiple of the 5 a worker gathers at
\* a time or not.
Capacities(type) == IF type = "Worker" THEN {10, 12} ELSE {10}

\* The mover starts next to the structure, as a unit trained there does.
InitMover ==
    /\ InitGame
    /\ pq = NoQueue
    /\ \E type \in {"Pathing", "Worker"} : \E capacity \in Capacities(type) :
         call = [status |-> "mover", position |-> MoverStart,
                 map |-> [p \in Row |-> IF p[1] < 2 THEN "structure"
                                        ELSE IF p = MoverStart THEN "mover" ELSE Free],
                 behaviour |-> MovingBehaviour(type, capacity), pool |-> 0,
                 last |-> NoLast]

\* Entity.on_target(position), as handle_set_target calls it.
MoverTarget(position) ==
    /\ call.status = "mover"
    /\ LET c == [call EXCEPT !.last = [NoLast EXCEPT !.op = "target",
                                                     !.position = position,
                                                     !.held = call.map[position]]]
       IN call' = IF call.behaviour.type = "Worker"
                  THEN Worker_on_target(c, position)
                  ELSE Pathing_on_target(c, position)
    /\ UNCHANGED <<games, state, inactive, time_since_active, runtime, pools, ent,
                   entities, map, structures, units, resources, subscribers,
                   queued_updates, revealed, closed, stack, err, nreq, ev, quiet,
                   trained, ticked, activated, received, pq>>

\* Behaviour.on_tick calls on_activate on the mover's behaviour.
MoverActivate ==
    /\ call.status = "mover"
    /\ call.behaviour.carry_amount < MaxCarry
    /\ LET r == Mover_on_activate([call EXCEPT !.last = [NoLast EXCEPT
                                                          !.op = "activate",
                                                          !.from = call.position]])
       IN call' = [r.c EXCEPT !.last.ok = r.ok]
    /\ UNCHANGED <<games, state, inactive, time_since_active, runtime, pools, ent,
                   entities, map, structures, units, resources, subscribers,
                   queued_updates, revealed, closed, stack, err, nreq, ev, quiet,
                   trained, ticked, activated, received, pq>>

\* Another entity, a unit or a resource, comes to stand on a free cell.
MoverMeets(position, kind) ==
    /\ call.status = "mover"
    /\ call.map[position] = Free
    /\ Cardinality({p \in Row : call.map[p] \in {"unit", "resource"}}) < MaxObstacles
    /\ call' = [call EXCEPT !.map[position] = kind, !.last = [NoLast EXCEPT !.op = "meet"]]
    /\ UNCHANGED <<games, state, inactive, time_since_active, runtime, pools, ent,
                   entities, map, structures, units, resources, subscribers,
                   queued_updates, revealed, closed, stack, err, nreq, ev, quiet,
                   trained, ticked, activated, received, pq>>

\* It moves away or is removed.
MoverParts(position) ==
    /\ call.status = "mover"
    /\ call.map[position] \in {"unit", "resource"}
    /\ call' = [call EXCEPT !.map[position] = Free, !.last = [NoLast EXCEPT !.op = "part"]]
    /\ UNCHANGED <<games, state, inactive, time_since_active, runtime, pools, ent,
                   entities, map, structures, units, resources, subscribers,
                   queued_updates, revealed, closed, stack, err, nreq, ev, quiet,
                   trained, ticked, activated, received, pq>>

NextMover ==
    \/ \E position \in Row : MoverTarget(position)
    \/ MoverActivate
    \/ \E position \in Row, kind \in {"unit", "resource"} : MoverMeets(position, kind)
    \/ \E position \in Row : MoverParts(position)

SpecMover == InitMover /\ [][NextMover]_vars

(***************************************************************************)
(* game/query.  call holds the latest reply.                               *)
(***************************************************************************)
\* Behaviour.on_query and its overrides for behaviour b: the keys of the
\* commands it lists, and KeyError for a Build or Train behaviour whose unit
\* has no template.
on_query(b) ==
    CASE b.type = "UnderConstruction" ->
           [commands |-> << <<"cancel", b.unit>> >>, raised |-> ""]
      [] b.type \in {"Build", "Train"} ->
           IF b.unit \in Names
           THEN [commands |-> << <<IF b.type = "Build" THEN "build" ELSE "train",
                                   b.unit>> >>,
                 raised |-> ""]
           ELSE [commands |-> <<>>, raised |-> "KeyError"]
      [] b.type = "Transmute" ->
           [commands |-> << <<"!", "Transmuting">>, <<"rate", "Number">>,
                            <<"from_resource", "ResourceType">>,
                            <<"!", "per second into">>,
                            <<"to_resource", "ResourceType">> >>,
            raised |-> ""]
      [] OTHER -> [commands |-> <<>>, raised |-> ""]

\* Entity.on_query: the commands of behaviours i .. Len(bs) of the list.
RECURSIVE Entity_on_query(_, _)
Entity_on_query(bs, i) ==
    IF i > Len(bs) THEN [commands |-> <<>>, raised |-> ""]
    ELSE LET first == on_query(bs[i])
             rest == Entity_on_query(bs, i + 1)
         IN IF first.raised # "" THEN first
            ELSE [commands |-> first.commands \o rest.commands, raised |-> rest.raised]

\* handle_query with the first line of handle_game_subscribe in it.
handle_query_subscribing(s, c, target) ==
    LET asked == [s EXCEPT !.subscribers = @ \cup {c}]
        found == Entity_on_query(s.ent[target].behaviours, 1)
    IN IF "g" \notin s.games
       THEN [s |-> [asked EXCEPT !.err[c] = "ValidationError"],
             reply |-> [error |-> "ValidationError", commands |-> <<>>]]
       ELSE IF ~Alive(s, target)
       THEN [s |-> [asked EXCEPT !.err[c] = ""],
             reply |-> [error |-> "invalid entity id", commands |-> <<>>]]
       ELSE [s |-> [asked EXCEPT !.err[c] = found.raised],
             reply |-> [error |-> found.raised,
                        commands |-> IF found.raised = "" THEN found.commands ELSE <<>>]]

\* game/query: handle_query, the state it leaves and its reply.  GameById
\* fails for an id that is not in games.  nreq counts the requests of the
\* other kinds.
handle_query(s, c, target) ==
    LET asked == s
        found == Entity_on_query(s.ent[target].behaviours, 1)
    IN IF "g" \notin s.games
       THEN [s |-> [asked EXCEPT !.err[c] = "ValidationError"],
             reply |-> [error |-> "ValidationError", commands |-> <<>>]]
       ELSE IF ~Alive(s, target)
       THEN [s |-> [asked EXCEPT !.err[c] = ""],
             reply |-> [error |-> "invalid entity id", commands |-> <<>>]]
       ELSE [s |-> [asked EXCEPT !.err[c] = found.raised],
             reply |-> [error |-> found.raised,
                        commands |-> IF found.raised = "" THEN found.commands ELSE <<>>]]

Query(c, target) ==
    /\ stack[c] = <<>>
    /\ c \notin closed
    /\ LET r == handle_query(Cur, c, target)
       IN /\ call' = [status |-> "query", target |-> target, reply |-> r.reply]
          /\ games' = r.s.games
          /\ state' = r.s.state
          /\ inactive' = r.s.inactive
          /\ time_since_active' = r.s.time_since_active
          /\ runtime' = r.s.runtime
          /\ pools' = r.s.pools
          /\ ent' = r.s.ent
          /\ entities' = r.s.entities
          /\ map' = r.s.map
          /\ structures' = r.s.structures
          /\ units' = r.s.units
          /\ resources' = r.s.resources
          /\ subscribers' = r.s.subscribers
          /\ queued_updates' = r.s.queued_updates
          /\ revealed' = r.s.revealed
          /\ closed' = r.s.closed
          /\ stack' = r.s.stack
          /\ err' = r.s.err
          /\ nreq' = r.s.nreq
          /\ ev' = r.s.ev
          /\ quiet' = r.s.quiet
          /\ trained' = r.s.trained
          /\ ticked' = r.s.ticked
          /\ activated' = r.s.activated
          /\ received' = r.s.received
    /\ UNCHANGED pq

\* Building as in SpecSite, with the client asking for the commands of the
\* worker and of what the worker builds, between its other requests and
\* during the ticks.
QueryTargets == {2, 4}

NextQuery ==
    \/ \E delta \in Pace : ShortTick(delta)
    \/ \E c \in Solo : Subscribe(c)
    \/ \E c \in Solo, r \in RaidSites : Command(c, r[1], r[2], r[3])
    \/ \E c \in Solo, target \in QueryTargets : Query(c, target)
    \/ \E t \in Tasks : BroadcastResume(t)

SpecQuery == Init /\ [][NextQuery]_vars

(***************************************************************************)
(* Vision.  The revealed area of a game whose entities stand on the row    *)
(* r = 0 east of the origin, where the hexagons of two entities may cover  *)
(* that of a third.  An area is the set of the unit triangles of the       *)
(* lattice that lie in it: <<q, r, 0>> has the corners (q, r), (q+1, r),   *)
(* (q, r+1) and <<q, r, 1>> the corners (q+1, r), (q, r+1), (q+1, r+1).    *)
(* shapely's Polygon.union and == are taken as the union and the equality  *)
(* of the areas.                                                           *)
(***************************************************************************)
Corners(tri) ==
    IF tri[3] = 0
    THEN {<<tri[1], tri[2]>>, <<tri[1] + 1, tri[2]>>, <<tri[1], tri[2] + 1>>}
    ELSE {<<tri[1] + 1, tri[2]>>, <<tri[1], tri[2] + 1>>, <<tri[1] + 1, tri[2] + 1>>}

\* create_hexagon(position, size): its six vertices are the positions at
\* distance size from position in the six directions.
create_hexagon(position, size) ==
    {tri \in ((position[1] - size) .. (position[1] + size))
               \X ((position[2] - size) .. (position[2] + size)) \X {0, 1} :
        \A c \in Corners(tri) : distance(c, position) <= size}

\* Game.add_vision with "self.revealed_area = create_hexagon(...)".
add_vision_anew(area, position, size) ==
    LET new_area == create_hexagon(position, size)
    IN IF new_area = area
       THEN [revealed_area |-> area, sent |-> <<>>]
       ELSE [revealed_area |-> new_area, sent |-> <<"reveal">>]

\* Game.add_vision: the area afterwards and the events it broadcasts.
add_vision(area, position, size) ==
    LET new_area == area \cup create_hexagon(position, size)
    IN IF new_area = area
       THEN [revealed_area |-> area, sent |-> <<>>]
       ELSE [revealed_area |-> new_area, sent |-> <<"reveal">>]

VisionCells == {<<q, 0>> : q \in 2 .. MaxReach}

\* What a cell of Game.map holds: an entity, by its alignment and
\* vision_size, or nothing.
Vacant == [alignment |-> Neutral, vision_size |-> 0]
Sighted == [alignment : {Player, Enemy, Neutral}, vision_size : {DefaultVisionSize}]
           \cup {[alignment |-> Player, vision_size |-> ConstructionVisionSize]}

InitVision ==
    /\ InitGame
    /\ pq = NoQueue
    /\ call = [status |-> "vision", map |-> [c \in VisionCells |-> Vacant],
               revealed_area |-> create_hexagon(Origin, StartVisionSize),
               sent |-> <<>>]

\* Game.on_new_entity, for an entity made by add_entity or build_entity.
VisionNew(entity, position) ==
    /\ call.status = "vision"
    /\ call.map[position] = Vacant
    /\ Cardinality({c \in VisionCells : call.map[c] # Vacant}) < MaxLive
    /\ LET v == IF entity.alignment = Player
                THEN add_vision(call.revealed_area, position, entity.vision_size)
                ELSE [revealed_area |-> call.revealed_area, sent |-> <<>>]
       IN call' = [call EXCEPT !.map[position] = entity,
                               !.revealed_area = v.revealed_area,
                               !.sent = v.sent \o <<"entity/add">>]
    /\ UNCHANGED <<games, state, inactive, time_since_active, runtime, pools, ent,
                   entities, map, structures, units, resources, subscribers,
                   queued_updates, revealed, closed, stack, err, nreq, ev, quiet,
                   trained, ticked, activated, received, pq>>

\* Game.move_entity of the entity at `from`; a move to an occupied position
\* raises ValueError and one to its own position returns at once.
VisionMove(from, position) ==
    /\ call.status = "vision"
    /\ call.map[from] # Vacant
    /\ LET entity == call.map[from]
           v == IF entity.alignment = Player
                THEN add_vision(call.revealed_area, position, entity.vision_size)
                ELSE [revealed_area |-> call.revealed_area, sent |-> <<>>]
       IN IF from = position \/ call.map[position] # Vacant
          THEN call' = [call EXCEPT !.sent = <<>>]
          ELSE call' = [call EXCEPT !.map[from] = Vacant,
                                    !.map[position] = entity,
                                    !.revealed_area = v.revealed_area,
                                    !.sent = v.sent]
    /\ UNCHANGED <<games, state, inactive, time_since_active, runtime, pools, ent,
                   entities, map, structures, units, resources, subscribers,
                   queued_updates, revealed, closed, stack, err, nreq, ev, quiet,
                   trained, ticked, activated, received, pq>>

\* Game.remove_entity of the entity at `from`.
VisionRemove(from) ==
    /\ call.status = "vision"
    /\ call.map[from] # Vacant
    /\ call' = [call EXCEPT !.map[from] = Vacant, !.sent = <<"entity/remove">>]
    /\ UNCHANGED <<games, state, inactive, time_since_active, runtime, pools, ent,
                   entities, map, structures, units, resources, subscribers,
                   queued_updates, revealed, closed, stack, err, nreq, ev, quiet,
                   trained, ticked, activated, received, pq>>

NextVision ==
    \/ \E entity \in Sighted, position \in VisionCells : VisionNew(entity, position)
    \/ \E from \in VisionCells, position \in VisionCells : VisionMove(from, position)
    \/ \E from \in VisionCells : VisionRemove(from)

SpecVision == InitVision /\ [][NextVision]_vars

(***************************************************************************)
(* Properties.                                                             *)
(***************************************************************************)
\* Task t is inside a broadcast, waiting for a send to end.
Suspended(t) == stack[t] # <<>> /\ Head(stack[t]).op = "broadcast"

\* Task t takes no part in the step.
Waits(t) == stack'[t] = stack[t]

\* C1: every entity of the entity table is indexed in the map at its own
\* position: map[e.position] is e.
C1_EntitiesIndexed ==
    \A k \in 1 .. Len(entities) : map[ent[entities[k]].position] = entities[k]

\* C2: the map never references a removed entity, at no cell, the six cells
\* of the fortress base plate included.
C2_MapHoldsNoRemoved ==
    \A p \in Cells : map[p] # 0 => ~ent[map[p]].removed

\* C3: while a task is suspended inside a broadcast, no step of another task
\* changes the entities, the map, the pools or the subscriber set.
C3_NoInterference ==
    [][\A t \in Tasks :
          Suspended(t) /\ Waits(t)
          => UNCHANGED <<ent, entities, map, pools, subscribers>>]_vars

\* The spend call of task t, when it is inside one: the costs before
\* frame.i are debited, those from frame.i on are not yet.
InSpend(st) == \E k \in 1 .. Len(st) : st[k].op = "spend"

SpendFrame(st) == st[CHOOSE k \in 1 .. Len(st) : st[k].op = "spend"]

\* C4: spend is all-or-nothing: a spend call that has debited a cost ends
\* only with every one of its costs debited, so the step in which it ends
\* debits each of the costs that were left.
C4_SpendAllOrNothing ==
    [][\A t \in Tasks :
          InSpend(stack[t]) /\ ~InSpend(stack'[t])
          => LET f == SpendFrame(stack[t])
             IN \A k \in f.i .. Len(f.costs) :
                    pools'[f.costs[k][1]] = pools[f.costs[k][1]] - f.costs[k][2]]_vars

\* C5: for every entity id the first broadcast that references it is its
\* entity/add, and after its entity/remove no update contains it, no attack
\* names it as target and no second entity/remove is sent.
C5_AddFirstRemoveLast ==
    \A i \in Ids : ~ev[i].early /\ ~ev[i].late

\* C6: the subscriber set does not change while a broadcast is iterating it:
\* a step that leaves a task inside its broadcast where it was leaves the set
\* as it was.
C6_SetStableWhileIterated ==
    [][\A t \in Tasks : Suspended(t) /\ Waits(t) => subscribers' = subscribers]_vars

\* C7: the game leaves the table only in a tick that found it inactive and
\* without subscribers and took time_since_active past 30 s; the game is
\* inactive exactly when its last tick saw no subscriber, and
\* time_since_active is then the sum of the deltas of the subscriber-less
\* ticks in a row after the one that marked it, so 0 at the marking.
C7_IdleDestroy ==
    [][/\ ("g" \in games /\ "g" \notin games')
          => /\ inactive
             /\ subscribers = {}
             /\ time_since_active' > IdleLimit
       /\ inactive' <=> quiet' >= 0
       /\ inactive' => time_since_active' = quiet']_vars

\* C7: the game was played, went idle again and was destroyed.
C7_Destroyed == games = {} /\ runtime > 0 /\ quiet > IdleLimit

\* C8: once the only client has gone away, the game is eventually removed
\* from the table, whatever its state.
C8_IdleDestroyIsLive ==
    (subscribers \subseteq closed /\ Solo \subseteq closed) ~> ("g" \notin games)

\* The entities made in place of construction i once it is finished.
IsConstruction(i) == ent[i].behaviours[1].type = "UnderConstruction"

Built(i) ==
    {j \in 1 .. Len(ent) : /\ ent[j].name = ent[i].behaviours[1].unit
                           /\ ent[j].position = ent[i].position}

Completing(i) ==
    \E t \in Tasks : \E k \in 1 .. Len(stack[t]) :
        /\ stack[t][k].op = "add_entity"
        /\ stack[t][k].how = "same_as"
        /\ stack[t][k].ref = i

\* C9: a construction healed to max_hp has exactly one entity/remove, and,
\* once the heal has gone through, exactly one built unit at its position,
\* announced by one entity/add.
C9_FinishedOnce ==
    \A i \in 1 .. Len(ent) :
        IsConstruction(i) /\ ent[i].hp = ent[i].max_hp
        => /\ ev[i].remove = 1
           /\ ~Completing(i) =>
                /\ Cardinality(Built(i)) = 1
                /\ \A j \in Built(i) : ev[j].add = 1

\* The Train behaviours of entity i.
Trains(i) == {k \in 1 .. Len(ent[i].behaviours) : ent[i].behaviours[k].type = "Train"}

\* C10: a Train behaviour has produced as many units as it had ticks that
\* found its queue non-zero and took its progress to the duration or past
\* it; such a tick leaves the progress 0 and the queue one less, and a tick
\* that finds the queue 0 leaves the progress 0.
C10_TrainCount ==
    \A i \in 1 .. Len(ent) : \A k \in Trains(i) :
        LET b == ent[i].behaviours[k]
            l == trained[i].last
        IN /\ trained[i].made = trained[i].due
           /\ l.ticked /\ l.queue = 0 => b.progress = 0 /\ b.queue = 0
           /\ l.ticked /\ l.queue # 0 /\ l.progress + l.delta >= b.duration
                => b.progress = 0 /\ b.queue = l.queue - 1

\* C10: a unit has been trained, by a tick that took the progress exactly to
\* the duration.
C10_Trained ==
    \E i \in 1 .. Len(ent) : \E k \in Trains(i) :
        /\ trained[i].made >= 1
        /\ trained[i].last.ticked
        /\ trained[i].last.queue # 0
        /\ trained[i].last.progress + trained[i].last.delta = ent[i].behaviours[k].duration

\* A build command that passed its checks is under way in the frames st.
BuildFrames(st) == {k \in 1 .. Len(st) : st[k].op = "build_done"}

\* What a build command of builder for cell pos leaves, before being the pools
\* it found: every cost debited once, one construction made at pos and
\* announced by one entity/add, the builder's pathing behaviours sent to pos.
BuildDone(builder, pos, unit, costs, before) ==
    /\ \A r \in ResourceTypes :
          LET ks == {k \in 1 .. Len(costs) : costs[k][1] = r}
          IN IF ks = {} THEN pools'[r] = before[r]
             ELSE \A k \in ks : pools'[r] = before[r] - costs[k][2]
    /\ LET made == {j \in 1 .. Len(ent') : /\ ent'[j].position = pos
                                           /\ ent'[j].name = ConstructionName(unit)}
       IN /\ Cardinality(made) = 1
          /\ \A j \in made : /\ ent'[j].behaviours[1].type = "UnderConstruction"
                              /\ ev'[j].add = 1
    /\ \A k \in 1 .. Len(ent'[builder].behaviours) :
          PathingBehaviour(ent'[builder].behaviours[k])
          => ent'[builder].behaviours[k].target_position = pos

\* Request r of TwoSites finds the game active, the builder alive and the
\* cell free.
Buildable(r) ==
    /\ "g" \in games
    /\ state = "active"
    /\ r[1] \in SeqToSet(entities)
    /\ r[3] \in Cells
    /\ map[r[3]] = 0

\* C11: a build command for a free cell with every cost affordable debits
\* each cost once, adds exactly one UnderConstruction entity at the cell with
\* an entity/add, and sends every pathing behaviour of the builder there:
\* this is what the handler of the command has done when it ends, in the
\* step that read the command or in a later one.
C11_BuildCommand ==
    [][\A c \in Solo :
          /\ (BuildFrames(stack[c]) # {} /\ stack'[c] = <<>>)
             => LET f == stack[c][CHOOSE k \in BuildFrames(stack[c]) : TRUE]
                IN BuildDone(f.builder, f.pos, "Arrow Tower", f.costs, f.pools)
          /\ \A r \in TwoSites :
                (/\ stack[c] = <<>>
                 /\ stack'[c] = <<>>
                 /\ nreq'[c] = nreq[c] + 1
                 /\ Buildable(r)
                 /\ ~Short(pools, TowerCosts)
                 /\ Command(c, r[1], r[2], r[3]))
                => BuildDone(r[1], r[3], "Arrow Tower", TowerCosts, pools)]_vars

\* C12: a build command with a cost that is not affordable changes no pool,
\* adds no entity and answers the caller with an error.
C12_Unaffordable ==
    [][\A c \in Solo : \A r \in TwoSites :
          (/\ stack[c] = <<>>
           /\ nreq'[c] = nreq[c] + 1
           /\ Buildable(r)
           /\ Short(pools, TowerCosts)
           /\ Command(c, r[1], r[2], r[3]))
          => /\ pools' = pools
             /\ ent' = ent
             /\ entities' = entities
             /\ err'[c] # ""]_vars

\* The add calls of pq.adds on item x, as indices.
AddsOf(x) == {k \in 1 .. Len(pq.adds) : pq.adds[k][1] = x}

Added == {pq.adds[k][1] : k \in 1 .. Len(pq.adds)}

\* The priority the last add call on x gave it.
LastPriority(x) == pq.adds[CHOOSE k \in AddsOf(x) : \A j \in AddsOf(x) : j <= k][2]

\* The add call that gave x that priority: the first one since which every
\* add call on x gave the same.
Inserted(x) ==
    CHOOSE k \in AddsOf(x) :
        /\ \A j \in AddsOf(x) : j >= k => pq.adds[j][2] = LastPriority(x)
        /\ \A i \in AddsOf(x) :
              (\A j \in AddsOf(x) : j >= i => pq.adds[j][2] = LastPriority(x)) => k <= i

\* x is returned before y.
Sooner(x, y) ==
    \/ LastPriority(x) < LastPriority(y)
    \/ LastPriority(x) = LastPriority(y) /\ Inserted(x) < Inserted(y)

\* C15: add calls followed by pop calls: the items come out without
\* repetition, in the order of the priority the last add call gave each, and
\* among equal priorities in the order of the add calls that gave it; pop
\* raises only when every item added has been returned.
C15_PopOrder ==
    pq.phase # "mixed" =>
        /\ \A i, j \in 1 .. Len(pq.popped) : i < j => Sooner(pq.popped[i], pq.popped[j])
        /\ \A i \in 1 .. Len(pq.popped) :
              /\ pq.popped[i] \in Added
              /\ \A y \in Added :
                    (\A j \in 1 .. Len(pq.popped) : pq.popped[j] # y)
                    => Sooner(pq.popped[i], y)
        /\ pq.raised => {pq.popped[i] : i \in 1 .. Len(pq.popped)} = Added

\* C15 witness: a queue popped to exhaustion after an item was given a new
\* priority that ties with the priority of an item added before.
C15_Exhausted ==
    /\ pq.phase = "pop"
    /\ pq.raised
    /\ \E x, y \in Added :
          /\ x # y
          /\ LastPriority(x) = LastPriority(y)
          /\ Cardinality(AddsOf(x)) > 1
          /\ \E k \in AddsOf(x) : pq.adds[k][2] # LastPriority(x)
          /\ \E k \in AddsOf(x), j \in AddsOf(y) : k < j /\ j < Inserted(x)

\* C16: the queue is truthy exactly when its heap holds a live entry, and
\* then pop returns an item.
C16_TruthyIsLive ==
    /\ bool(pq.queue) <=> (\E e \in pq.queue.heap : e.item # None)
    /\ bool(pq.queue) => ~pop(pq.queue).raised

\* Where the returned path ends: the start when it is empty.
PathEnd == IF call.path = <<>> THEN call.start_position ELSE call.path[Len(call.path)]

Popped == SeqToSet(call.popped)

\* C13: the path path_between returns is a chain of neighbours that begins
\* next to the start, holds no position of the map and not the start, and
\* ends at the target if the target was popped, otherwise at a popped
\* position no other popped position is nearer to the target than; it is
\* empty when that position is the start.
C13_PathShape ==
    call.status = "returned" =>
        /\ \A i \in 1 .. Len(call.path) :
              /\ call.path[i] \notin call.map
              /\ call.path[i] # call.start_position
              /\ call.path[i] \in SeqToSet(neighbors(IF i = 1 THEN call.start_position
                                                     ELSE call.path[i - 1]))
        /\ call.target_position \in Popped => PathEnd = call.target_position
        /\ call.target_position \notin Popped =>
              /\ PathEnd \in Popped \cup {call.start_position}
              /\ \A p \in Popped \cup {call.start_position} :
                    distance(call.target_position, PathEnd)
                        <= distance(call.target_position, p)

\* C13 witness: a search the limit cut short, on a strip with an occupied
\* cell, returns a path of several steps to the popped position nearest to
\* the target.
C13_CutShort ==
    /\ call.status = "returned"
    /\ call.steps = call.limit
    /\ bool(call.queue)
    /\ call.target_position \notin Popped
    /\ call.map \cap PathCells # {}
    /\ Len(call.path) >= 2

\* C14: path_between never raises and makes at most limit passes of its
\* loop, also from a start the occupied cells enclose.
C14_NeverRaises ==
    /\ call.status # "none" => call.steps <= call.limit
    /\ call.status # "raised"

C18_ViewsAgree ==
    \A i \in 1 .. Len(ent) :
        LET live == i \in SeqToSet(entities)
            tag == ent[i].entity_tag
        IN /\ i \in units <=> (live /\ Has(tag, Unit))
           /\ i \in resources <=> (live /\ Has(tag, Resource))
           /\ i \in structures <=> (live /\ Has(tag, Structure))
           /\ live => tag \in {Unit, Resource, Structure}

\* The frames of stack st that send an entity/update batch.
UpdateFrames(st) ==
    {k \in 1 .. Len(st) : st[k].op = "broadcast" /\ st[k].msg.type = "entity/update"}

\* C19: an entity/update batch is sent by a tick whose loop over the
\* snapshot has ended, after on_tick was called on every entity of the
\* snapshot; it holds exactly the queued entities that were in the entity
\* table; queued_updates is empty while it is sent and when the tick ends.
C19_BatchAfterTicks ==
    [][/\ \A k \in UpdateFrames(stack'["tick"]) :
             LET m == stack'["tick"][k].msg
             IN /\ k = 1
                /\ \A j \in 2 .. Len(stack'["tick"]) : stack'["tick"][j].op = "tick_end"
                /\ m.seen.ticked = m.seen.snapshot
                /\ m.ids = m.seen.queued \cap m.seen.table
                /\ queued_updates' = {}
       /\ (UpdateFrames(stack["tick"]) # {} /\ stack'["tick"] = <<>>)
             => queued_updates' = {}]_vars

\* C19 witness: a batch is being sent after a tick of several entities, one
\* of them queued and no longer in the entity table.
C19_BatchInFlight ==
    \E k \in UpdateFrames(stack["tick"]) :
        LET m == stack["tick"][k].msg
        IN /\ Len(m.seen.snapshot) > 1
           /\ m.seen.ticked = m.seen.snapshot
           /\ m.seen.queued \ m.seen.table # {}
           /\ m.ids # {}

\* The game is one that game_thread runs active ticks of.
Ticking == "g" \in games /\ state = "active" /\ subscribers # {}

\* C20: while one entity's tick raises on every tick, every entity in the
\* entity table of a game with active ticks is, again and again, among the
\* entities the latest tick called on_tick on, and again and again
\* queued_updates has been flushed.
C20_OthersGoOn ==
    /\ \A i \in Ids : []<>((Ticking /\ i \in SeqToSet(entities)) => i \in ticked)
    /\ []<>(queued_updates = {})

\* C21: the activations of a TransmuteBehaviour since its last command, all
\* of them successful and n in number, have sold n * rate of from_resource
\* and purchased floor(n * rate * value(from) * efficiency / value(to)) of
\* to_resource, and the pools hold Purse less and more that.
C21_TransmuteTotals ==
    (call.status = "transmute" /\ call.run.clean /\ call.run.activations > 0) =>
        LET b == call.behaviour
            n == call.run.activations
        IN /\ call.run.sold = n * b.current_rate
           /\ call.run.purchased =
                (n * b.current_rate * resource_values[b.from_resource] * b.efficiency)
                    \div (resource_values[b.to_resource] * 100)
           /\ call.run.activations = call.total =>
                \A r \in ResourceTypes :
                    call.pools[r] = Purse
                                    - (IF r = b.from_resource THEN call.run.sold ELSE 0)
                                    + (IF r = b.to_resource THEN call.run.purchased ELSE 0)

\* C21 witness: seven activations at rate 3 from food to gold have sold 21
\* food and purchased 8 gold.
C21_SevenActivations ==
    /\ call.status = "transmute"
    /\ call.run.clean
    /\ call.run.activations = 7
    /\ call.behaviour.current_rate = 3
    /\ call.behaviour.from_resource = "food"
    /\ call.behaviour.to_resource = "gold"
    /\ call.pools["food"] = Purse - 21
    /\ call.pools["gold"] = Purse + 8

\* C22: the state of a game changes only from Lobby to Active and from
\* Active to Finished, and Game.on_tick, called while the state is
\* Finished, starts no tick of the entities.
C22_OneWay ==
    [][/\ state' # state =>
            <<state, state'>> \in {<<"lobby", "active">>, <<"active", "finished">>}
       /\ state = "finished" =>
            \A delta \in Deltas : on_tick(Cur, delta).running = NoTask]_vars

\* C22 witness: a game that was created has ended; the tick that ended it is
\* over, and the game is in the table with entities and a subscriber, so
\* that game_thread calls Game.on_tick on it.
C22_Finished ==
    /\ state = "finished"
    /\ "g" \in games
    /\ stack["tick"] = <<>>
    /\ entities # <<>>
    /\ subscribers # {}
    /\ ~inactive

C24_OncePerTick ==
    \A j \in DOMAIN activated, k \in DOMAIN activated :
        j # k => activated[j] # activated[k]

\* C24 witness: a tick is over that activated a behaviour whose cooldown is
\* 0 and a behaviour that is still behind afterwards: its
\* time_until_activation is below 0 after the reload.
C24_Backlog ==
    /\ stack["tick"] = <<>>
    /\ \E j \in DOMAIN activated :
          LET b == ent[activated[j][1]].behaviours[activated[j][2]]
          IN b.cooldown = 0
    /\ \E j \in DOMAIN activated :
          LET b == ent[activated[j][1]].behaviours[activated[j][2]]
          IN b.cooldown > 0 /\ b.time_until_activation < 0

\* C25: in every state a game/query request for any entity, and for an id
\* that is none, changes nothing of the game, of its entities and of their
\* behaviours, and broadcasts nothing: handle_query leaves the state as it
\* was, but for the outcome of the request.
C25_QueryPure ==
    \A c \in Conns, target \in Ids :
        LET r == handle_query(Cur, c, target)
        IN r.s = [Cur EXCEPT !.err[c] = r.s.err[c]]

\* C25 witness: while a tick is suspended in a broadcast, the commands of a
\* construction site were asked for and answered with its cancel command.
C25_AskedInTick ==
    /\ call.status = "query"
    /\ stack["tick"] # <<>>
    /\ Alive(Cur, call.target)
    /\ ent[call.target].hp < ent[call.target].max_hp
    /\ call.reply = [error |-> "", commands |-> << <<"cancel", "Arrow Tower">> >>]

\* C26: a mover that has planned a path of len >= 1 positions has moved to
\* the first of them and holds ceil(len / 5) - 1 reserved steps.
C26_KeepsFifth ==
    (call.status = "mover" /\ call.last.planned >= 1) =>
        /\ call.position = corridor_path([call.map EXCEPT ![call.position] = Free],
                                         call.last.from, call.position)[1]
        /\ Len(call.behaviour.path) + 1 = (call.last.planned + 4) \div 5

\* C27: an activation that found the next reserved step occupied has
\* cleared the reserved steps, has not moved the entity and has planned no
\* path.
C27_ReplansLater ==
    (call.status = "mover" /\ call.last.cleared) =>
        /\ call.behaviour.path = <<>>
        /\ call.position = call.last.from
        /\ call.last.planned = -1

\* C28: after target(position) the behaviour has target_position = position
\* only if nothing stood on position, and a Worker targeted at a resource
\* has it as target_resource and no target_position.
C28_TargetsFree ==
    (call.status = "mover" /\ call.last.op = "target") =>
        /\ call.behaviour.target_position = call.last.position
              => call.last.held = Free
        /\ (call.behaviour.type = "Worker" /\ call.last.held = "resource")
              => /\ call.behaviour.target_resource = call.last.position
                 /\ call.behaviour.target_position = NoPosition

\* The key is one that on_command of the behaviour b compares equal to.
Matches(b, key) ==
    CASE b.type = "Build" -> key = <<"build", b.unit>>
      [] b.type = "UnderConstruction" -> key = <<"cancel", b.unit>>
      [] b.type = "Train" -> key \in {<<"train", b.unit>>, <<"cancel", b.unit>>}
      [] OTHER -> FALSE

Listed == {"", "KeyError", "ValueError", "ClientError"}

\* What a command no behaviour matches leaves alone: the game, its entities
\* and indices, the pools and what has been broadcast.
world == <<games, state, inactive, time_since_active, runtime, pools, ent, entities,
           map, structures, units, resources, subscribers, queued_updates, revealed,
           ev, trained>>

\* C29: Entity.on_command calls on_command of the behaviours in the order of
\* the list, each once; as long as the calls raised nothing but KeyError,
\* ValueError and ClientError no exception has left Entity.on_command, and
\* when it is over every behaviour of the list has got the command.  A
\* command whose key no behaviour of the entity matches is over within the
\* step that read it, without an error, and changes nothing of the game.
C29_LaterStillReceive ==
    /\ [](\A c \in Conns :
            LET o == received[c]
            IN o.id # 0 =>
               /\ \A k \in DOMAIN o.calls : o.calls[k].i = k
               /\ (\A k \in DOMAIN o.calls : o.calls[k].raised \in Listed) =>
                     /\ o.escaped = ""
                     /\ ~Inside(stack[c]) => Len(o.calls) = Len(ent[o.id].behaviours))
    /\ [][\A c \in Conns :
            (/\ nreq'[c] = nreq[c] + 1
             /\ received'[c].request = nreq'[c]
             /\ \A i \in DOMAIN ent[received'[c].id].behaviours :
                   ~Matches(ent[received'[c].id].behaviours[i], received'[c].key))
            => /\ UNCHANGED world
               /\ stack'[c] = <<>>
               /\ err'[c] = ""]_vars

\* C29 witness: a site was built and paid for, and the worker was told to
\* build once more: the pools were short, BuildBehaviour.on_command raised
\* ClientError, the RepairBehaviour after it got the command all the same,
\* and the request was answered without an error.
C29_RaisedThenHeard ==
    /\ stack["c1"] = <<>>
    /\ err["c1"] = ""
    /\ received["c1"].calls = << [i |-> 1, raised |-> ""],
                                 [i |-> 2, raised |-> "ClientError"],
                                 [i |-> 3, raised |-> ""] >>
    /\ Short(pools, TowerCosts)
    /\ \E id \in structures : ent[id].behaviours[1].type = "UnderConstruction"

\* The task with the frames st is inside Game.handle_attack on the target
\* id, at the broadcast of entity/attack.
Attacking(st, id) ==
    \E k \in DOMAIN st : st[k].op = "attack_done" /\ st[k].target = id

\* The frames st hold a broadcast of the type that names id.
Sending(st, type, id) ==
    \E k \in DOMAIN st :
        /\ st[k].op = "broadcast"
        /\ st[k].msg.type = type
        /\ st[k].msg.id = id \/ id \in st[k].msg.ids

\* C30: when the tick has left the entity/attack broadcast of
\* handle_attack, a target whose hp is 0 is in none of entities, the map and
\* the view of its tag, and an entity/remove for it has been sent since or
\* is about to be sent by the call; a target with hp left is still live and
\* is queued for an update, or in the entity/update being sent.
C30_AttackSettles ==
    [][\A id \in Ids :
         (Attacking(stack["tick"], id) /\ ~Attacking(stack'["tick"], id)) =>
            IF ent'[id].hp = 0
            THEN /\ id \notin SeqToSet(entities')
                 /\ map'[ent'[id].position] # id
                 /\ id \notin structures' \cup units' \cup resources'
                 /\ \/ Sending(stack'["tick"], "entity/remove", id)
                    \/ ev'[id].remove > ev[id].remove
                    \/ ev'[id].remove = MaxCount
            ELSE /\ id \in SeqToSet(entities')
                 /\ map'[ent'[id].position] = id
                 /\ \/ id \in queued_updates'
                    \/ Sending(stack'["tick"], "entity/update", id)]_vars

\* The pools have grown by half of each amount of costs, and by nothing else.
Refunded(costs) ==
    /\ \A k \in DOMAIN costs :
          2 * (pools'[costs[k][1]] - pools[costs[k][1]]) = costs[k][2]
    /\ \A r \in ResourceTypes \ {costs[k][1] : k \in DOMAIN costs} :
          pools'[r] = pools[r]

\* C31: a cancel/<unit> command that is read and answered in one step has
\* added half of each listed cost to the pools and has taken one slot from
\* the queue of a Train behaviour of the unit, or has removed the
\* construction of the unit; for a Train behaviour with an empty queue it
\* has changed nothing.
C31_CancelRefundsHalf ==
    [][\A c \in Conns :
         LET o == received'[c]
             bs == ent[o.id].behaviours
         IN (/\ nreq'[c] = nreq[c] + 1
             /\ o.request = nreq'[c]
             /\ o.key[1] = "cancel"
             /\ stack'[c] = <<>>)
            => \A i \in DOMAIN bs :
                 (bs[i].type \in {"Train", "UnderConstruction"} /\ Matches(bs[i], o.key)) =>
                    IF bs[i].type = "UnderConstruction"
                    THEN Refunded(bs[i].costs) /\ o.id \notin SeqToSet(entities')
                    ELSE IF bs[i].queue > 0
                    THEN /\ Refunded(bs[i].costs)
                         /\ ent'[o.id].behaviours[i].queue = bs[i].queue - 1
                    ELSE UNCHANGED world]_vars

\* C32: an activation of a SummonPoolBehaviour returns, and the units it
\* has added cost no more than the strength of the behaviour.
C32_BoundedWork ==
    /\ [](call.status = "summon" => call.spent <= call.behaviour.strength)
    /\ <>(call.status = "summon" /\ call.at = "returned")

\* C33: for an entity that remove_entity has been applied to, no step has
\* Entity.on_tick called on it or on_activate called on a behaviour of it,
\* moves it, or puts it into the entity table, a view or a cell of the map.
C33_RemovedStaysOut ==
    [][\A id \in DOMAIN ent :
         ent[id].removed =>
            /\ id \in ticked' => id \in ticked
            /\ \A j \in DOMAIN activated' :
                  activated'[j][1] = id => activated'[j] \in SeqToSet(activated)
            /\ ent'[id].position = ent[id].position
            /\ id \notin SeqToSet(entities') \cup structures' \cup units' \cup resources'
            /\ \A p \in Cells : map'[p] = id => map[p] = id]_vars

\* C34: the queue of a Train behaviour is not negative, and the entity has
\* made no more units than train commands were paid for less the cancels
\* that were refunded.
C34_QueueCovered ==
    \A i \in 1 .. Len(ent) : \A k \in Trains(i) :
        /\ ent[i].behaviours[k].queue >= 0
        /\ trained[i].made <= trained[i].paid - trained[i].refunded

\* C35: no resource pool is negative.
C35_PoolsNotNegative ==
    \A r \in ResourceTypes : pools[r] >= 0

\* The construction the step adds at cell pos, if it adds one.
Founded(pos) ==
    /\ Len(ent') = Len(ent) + 1
    /\ ent'[Len(ent')].position = pos
    /\ ent'[Len(ent')].behaviours[1].type = "UnderConstruction"
    /\ map'[pos] = Len(ent')

\* C36: a build command debits its costs if and only if it adds an
\* UnderConstruction entity at the requested cell: a handler that ends in
\* the step that read the command changes the pools exactly when it founds
\* the construction, and a handler that was suspended in spend, its costs
\* partly or wholly debited, founds the construction before it ends.
C36_BuildAtomic ==
    [][\A c \in Conns :
          /\ \A r \in CampCommands :
                (/\ r[2][1] = "build"
                 /\ stack[c] = <<>>
                 /\ stack'[c] = <<>>
                 /\ nreq'[c] = nreq[c] + 1
                 /\ Command(c, r[1], r[2], r[3]))
                => (pools' # pools <=> Founded(r[3]))
          /\ \A k \in BuildFrames(stack[c]) :
                (/\ stack'[c] = <<>>
                 /\ \E j \in DOMAIN stack[c] : stack[c][j].op = "build_entity")
                => Founded(stack[c][k].pos)]_vars

\* The Game.end calls made so far, as <<id, k>>: the k-th of entity id's
\* removal.
Ended == {x \in Ids \X (1 .. MaxCount) : x[2] <= Len(ev[x[1]].ends)}

\* C37: Game.end is called, and so game/end broadcast, at most once in a
\* game, so that no second outcome follows the first.
C37_EndsOnce ==
    Cardinality(Ended) <= 1

\* C38: an activation of a TransmuteBehaviour that finds less of
\* from_resource than its rate leaves every pool and the remainder it
\* carries as they were.
C38_FailureKeepsAll ==
    [][(/\ call.status = "transmute"
        /\ call'.total = call.total + 1
        /\ call.behaviour.from_resource # Null
        /\ call.behaviour.to_resource # Null
        /\ call.behaviour.current_rate # 0
        /\ call.pools[call.behaviour.from_resource] < call.behaviour.current_rate)
       => /\ call'.pools = call.pools
          /\ call'.behaviour.remainder = call.behaviour.remainder]_vars

\* C39: a worker carries no more than its carry_capacity, and a worker that
\* carries its capacity when it is activated away from the fortress, with
\* no step of a path left, gathers no more and plans a path to the fortress.
C39_CarryWithinCapacity ==
    /\ [](call.status = "mover" =>
             call.behaviour.carry_amount <= call.behaviour.carry_capacity)
    /\ [][(/\ call.status = "mover"
            /\ call.behaviour.type = "Worker"
            /\ call.behaviour.carry_amount = call.behaviour.carry_capacity
            /\ call.behaviour.path = <<>>
            /\ distance(call.position, Origin) > 2
            /\ call'.last.op = "activate")
           => /\ call'.behaviour.carry_amount = call.behaviour.carry_amount
              /\ call'.last.planned >= 0]_vars

\* The frames st are at the broadcast of the entity/attack of a
\* Game.handle_attack.
Striking(st) ==
    /\ st # <<>>
    /\ Head(st).op = "broadcast"
    /\ Head(st).msg.type = "entity/attack"

\* The attack announced by m has damaged an entity of the attacker's
\* alignment or a Neutral one.
OnFriend(m) == ent[m.id].alignment \in {Neutral, ent[m.src].alignment}

====
